---- MODULE Spec2Model ----
(***************************************************************************)
(* Model of the token API route of pumpfun-deployer-hunter.                *)
(*                                                                         *)
(*   src/app/api/tokens/route.ts (lines 1-309): the GET handler with its   *)
(*   two cache slots (default view, volume view), fetchRecentTokens,       *)
(*   fetchHighVolumeTokens, calculateDeployerStats and analyzeTokens.      *)
(*   src/app/api/tokens/route.ts (lines 311-551): the "debug" revision,    *)
(*   processTokens (top 5 by holders).                                     *)
(*   src/unnamed/part_001 (lines 1-468): the revision with the trending    *)
(*   view, fetchTrendingTokens and processTrendingPairs.                   *)
(*   src/unnamed/part_003 (lines 1-161): the first, mock revision, whose   *)
(*   calculateDeployerStats draws from Math.random.                        *)
(*                                                                         *)
(* Times are epoch milliseconds, as Date.now() returns them; the clock of  *)
(* the model advances by half a cache duration.  A JavaScript value that is absent *)
(* (undefined) is modelled by the falsy value of its type (0, "", <<>>):   *)
(* the code reads every optional field through `x || default`, which       *)
(* treats the two alike.  An address string is the sequence of its UTF-16  *)
(* code units, which is what calculateDeployerStats reads.                 *)
(***************************************************************************)
EXTENDS Integers, Sequences, FiniteSets, TLC

VARIABLES
  clock,                \* Date.now()
  cachedTokens,         \* route.ts:24
  lastFetchTime,        \* route.ts:26
  cachedVolumeTokens,   \* route.ts:25
  lastVolumeFetchTime,  \* route.ts:27
  req,                  \* the GET invocations in flight, by view and start time
  resp,                 \* the response the last step sent, if it sent one
  run                   \* one run of a fetcher, of the pipeline or of a function

vars == <<clock, cachedTokens, lastFetchTime, cachedVolumeTokens,
          lastVolumeFetchTime, req, resp, run>>

----------------------------------------------------------------------------
(* Program constants *)

Minute == 60 * 1000
CACHE_DURATION == 5 * 60 * 1000
ONE_HOUR == 60 * 60 * 1000
MIN_HOLDERS == 15
MIN_MARKET_CAP == 6000
MIN_BONDING_RATE == 50
TOP_N == 10
RECENT_LIMIT == 50
VOLUME_TOP_N == 5
HOLDERS_TOP_N == 5
BOOST_LIMIT == 10
TRENDING_LOOKUPS == 5
TRENDING_TOP_N == 5

(* Bounds of the model *)

MaxReq == 2          \* requests that can be in flight together
MaxTicks == 3        \* steps the clock advances over
MaxPairs == 2        \* pairs in one upstream body of the pipeline and fetcher runs
MaxAddrLen == 3      \* code units in a deployer address
MaxRankLen == 11     \* tokens in a list given to the ranker
MaxItems == 2        \* items in one body of the boosts endpoint

(* The clock starts long after the epoch and advances by half a cache     *)
(* duration a step.                                                        *)
Step == CACHE_DURATION \div 2
StartTime == 1000 * Minute
MaxClock == StartTime + MaxTicks * Step

----------------------------------------------------------------------------
(* Strings as sequences of UTF-16 code units *)

Unknown == <<117, 110, 107, 110, 111, 119, 110>>     \* 'unknown'

----------------------------------------------------------------------------
(* Sequence helpers: Array.prototype.filter, slice(0, n), map, sort *)

RECURSIVE SelectIdx(_, _, _)
SelectIdx(s, keep, i) ==
  IF i > Len(s) THEN <<>>
  ELSE IF keep[i] THEN <<s[i]>> \o SelectIdx(s, keep, i + 1)
       ELSE SelectIdx(s, keep, i + 1)

SliceAll(s, n) == s

SliceTo(s, n) == IF Len(s) <= n THEN s ELSE SubSeq(s, 1, n)

(* x placed behind every element whose key is >= its own: the comparator   *)
(* (a, b) => b[f] - a[f] with a stable sort (Array.prototype.sort).        *)
RECURSIVE InsertDesc(_, _, _)
InsertDesc(x, s, f) ==
  IF s = <<>> THEN <<x>>
  ELSE IF s[1][f] >= x[f] THEN <<s[1]>> \o InsertDesc(x, Tail(s), f)
       ELSE <<x>> \o s

RECURSIVE SortDescBy(_, _)
SortDescBy(s, f) ==
  IF s = <<>> THEN <<>>
  ELSE InsertDesc(s[Len(s)], SortDescBy(SubSeq(s, 1, Len(s) - 1), f), f)

Range(s) == {s[i] : i \in 1..Len(s)}

----------------------------------------------------------------------------
(* Exceptions: a computation returns a value or throws *)

Return(v) == [threw |-> FALSE, value |-> v]
Throw == [threw |-> TRUE, value |-> <<>>]

TryCatchPropagates(body, handler) == body

(* try { body } catch { handler } *)
TryCatch(body, handler) == IF body.threw THEN handler ELSE body

----------------------------------------------------------------------------
(* Upstream data: a DexScreener pair, with the fields the code reads *)

NoPair ==
  [address |-> "", name |-> "", symbol |-> "", url |-> "",
   pairAddress |-> <<>>, creator |-> <<>>,
   liquidityUsd |-> 0, fdv |-> 0, marketCap |-> 0,
   buys24 |-> 0, sells24 |-> 0, buys1 |-> 0, sells1 |-> 0,
   pairCreatedAt |-> 0, priceUsd |-> "",
   volumeH1 |-> 0, volumeH24 |-> 0,
   priceChangeH1 |-> 0, hasPriceChangeH1 |-> FALSE, priceChangeH24 |-> 0]

(* The pairs the upstream of the handler model answers with.  PairQ is    *)
(* less than an hour old at StartTime and no later; PairR is created at    *)
(* StartTime.  The pair addresses 'Q' (81) and 'R' (82) hash to the       *)
(* bonding rates 51 and 52.                                                *)
PairQ == [NoPair EXCEPT !.address = "mintQ", !.name = "Q coin", !.symbol = "QQ",
            !.pairAddress = <<81>>, !.liquidityUsd = 6000, !.fdv = 9000,
            !.buys24 = 15, !.sells24 = 5,
            !.pairCreatedAt = StartTime - ONE_HOUR + Step,
            !.priceUsd = "2", !.volumeH24 = 300]
PairR == [NoPair EXCEPT !.address = "mintR", !.name = "R coin", !.symbol = "RR",
            !.pairAddress = <<82>>, !.liquidityUsd = 7000,
            !.buys24 = 15, !.sells24 = 0, !.pairCreatedAt = StartTime,
            !.volumeH24 = 500]

HandlerPairs == {PairQ, PairR}

RECURSIVE SeqsUpTo(_, _)
SeqsUpTo(S, n) ==
  IF n = 0 THEN {<<>>}
  ELSE LET shorter == SeqsUpTo(S, n - 1)
       IN  shorter \cup {Append(s, x) : s \in {t \in shorter : Len(t) = n - 1}, x \in S}

(* What one upstream call can come to: fetch() rejects, the status is not  *)
(* 2xx, response.json() rejects, the body is the JSON value null, or the   *)
(* body is an object whose pairs are the given list.                       *)
Failures == {[kind |-> "reject", pairs |-> <<>>],
             [kind |-> "notOk", pairs |-> <<>>],
             [kind |-> "badJson", pairs |-> <<>>],
             [kind |-> "nullBody", pairs |-> <<>>]}

Bodies(P, n) == {[kind |-> "ok", pairs |-> ps] : ps \in SeqsUpTo(P, n)}

HandlerBodies == {<<>>, <<PairQ>>, <<PairR>>, <<PairQ, PairR>>}

HandlerOutcomes == Failures \cup {[kind |-> "ok", pairs |-> ps] : ps \in HandlerBodies}

----------------------------------------------------------------------------
(* fetchRecentTokens, route.ts:31-87 *)

(* pair.priceUsd || 0: the upstream's string, or the number 0 *)
PriceOrZero(p) == IF p.priceUsd = "" THEN [num |-> 0] ELSE [str |-> p.priceUsd]

(* A variant that stamps the token with the time of the call *)
NormalizeRecentStamped(p) ==
  [mint |-> IF p.address = "" THEN "unknown" ELSE p.address,
   name |-> IF p.name = "" THEN "Unknown Token" ELSE p.name,
   symbol |-> IF p.symbol = "" THEN "UNKNOWN" ELSE p.symbol,
   uri |-> p.url,
   marketCap |-> p.liquidityUsd,
   deployer |-> IF p.pairAddress = <<>> THEN Unknown ELSE p.pairAddress,
   holders |-> p.buys24 + p.sells24,
   createdAt |-> clock,
   priceUsd |-> PriceOrZero(p),
   volume24h |-> p.volumeH24,
   priceChange24h |-> p.priceChangeH24]

NormalizeRecent(p) ==
  [mint |-> IF p.address = "" THEN "unknown" ELSE p.address,
   name |-> IF p.name = "" THEN "Unknown Token" ELSE p.name,
   symbol |-> IF p.symbol = "" THEN "UNKNOWN" ELSE p.symbol,
   uri |-> p.url,
   marketCap |-> p.liquidityUsd,
   deployer |-> IF p.pairAddress = <<>> THEN Unknown ELSE p.pairAddress,
   holders |-> p.buys24 + p.sells24,
   createdAt |-> p.pairCreatedAt,
   priceUsd |-> PriceOrZero(p),
   volume24h |-> p.volumeH24,
   priceChange24h |-> p.priceChangeH24]

IsRecentDay(p, t) == p.pairCreatedAt # 0 /\ p.pairCreatedAt > t - 24 * ONE_HOUR

IsRecent(p, t) == p.pairCreatedAt # 0 /\ p.pairCreatedAt > t - ONE_HOUR

fetchRecentTokensBody(o, t) ==
  IF o.kind \in {"reject", "badJson", "nullBody"} THEN Throw
  ELSE IF o.kind = "notOk" THEN Return(<<>>)
  ELSE LET keep == [i \in 1..Len(o.pairs) |-> IsRecent(o.pairs[i], t)]
           recentTokens == SliceTo(SelectIdx(o.pairs, keep, 1), RECENT_LIMIT)
       IN  Return([i \in 1..Len(recentTokens) |-> NormalizeRecent(recentTokens[i])])

fetchRecentTokens(o, t) == TryCatch(fetchRecentTokensBody(o, t), Return(<<>>))

----------------------------------------------------------------------------
(* calculateDeployerStats, route.ts:167-179 *)

RECURSIVE SumCodes(_)
SumCodes(a) == IF a = <<>> THEN 0 ELSE a[1] + SumCodes(Tail(a))

calculateDeployerStatsMod16(deployer) ==
  LET hash == SumCodes(deployer)
      totalTokens == 5 + (hash % 16)
      bondingRate == 50 + (hash % 40)
  IN  [address |-> deployer, totalTokens |-> totalTokens,
       bondedTokens |-> (totalTokens * bondingRate) \div 100,
       bondingRate |-> bondingRate]

(* A variant whose hash is salted with the call already made in this run *)
calculateDeployerStatsSalted(deployer) ==
  LET hash == SumCodes(deployer) + (IF run.op = "stats" THEN 1 ELSE 0)
      totalTokens == 5 + (hash % 15)
      bondingRate == 50 + (hash % 40)
  IN  [address |-> deployer, totalTokens |-> totalTokens,
       bondedTokens |-> (totalTokens * bondingRate) \div 100,
       bondingRate |-> bondingRate]

(* Math.floor(totalTokens * (bondingRate / 100)): for every totalTokens in *)
(* 5..19 and bondingRate in 50..89 the double product has the floor of the *)
(* exact quotient, so the integer division is the code's value.            *)
calculateDeployerStats(deployer) ==
  LET hash == SumCodes(deployer)
      totalTokens == 5 + (hash % 15)
      bondingRate == 50 + (hash % 40)
  IN  [address |-> deployer, totalTokens |-> totalTokens,
       bondedTokens |-> (totalTokens * bondingRate) \div 100,
       bondingRate |-> bondingRate]

----------------------------------------------------------------------------
(* analyzeTokens, route.ts:181-247 *)

MeetsCriteria(token) ==
  token.holders >= MIN_HOLDERS /\ token.marketCap >= MIN_MARKET_CAP

(* A variant that keeps every record's deployer *)
AllDeployers(tokens) == [i \in 1..Len(tokens) |-> tokens[i].deployer]

(* [...new Set(filteredTokens.map(t => t.deployer))]: the deployers in the  *)
(* order of their first records; the loop calls calculateDeployerStats for *)
(* each element.                                                           *)
UniqueDeployers(tokens) ==
  LET first == [i \in 1..Len(tokens) |->
                  \A j \in 1..(i - 1) : tokens[j].deployer # tokens[i].deployer]
      kept == SelectIdx(tokens, first, 1)
  IN  [i \in 1..Len(kept) |-> kept[i].deployer]

(* deployerStatsMap: one entry per distinct deployer of the filtered list *)
DeployerStatsMap(tokens) ==
  [d \in {tokens[i].deployer : i \in 1..Len(tokens)} |-> calculateDeployerStats(d)]

GoodDeployerAtLeast(token, statsMap) ==
  token.deployer \in DOMAIN statsMap
  /\ statsMap[token.deployer].bondingRate >= MIN_BONDING_RATE

GoodDeployer(token, statsMap) ==
  token.deployer \in DOMAIN statsMap
  /\ statsMap[token.deployer].bondingRate > MIN_BONDING_RATE

WithBondingRate(token, statsMap) ==
  [f \in DOMAIN token \cup {"bondingRate"} |->
     IF f = "bondingRate" THEN statsMap[token.deployer].bondingRate ELSE token[f]]

WithRank(token, index) ==
  [f \in DOMAIN token \cup {"rank"} |-> IF f = "rank" THEN index ELSE token[f]]

(* .sort(by key, descending).slice(0, n).map((token, index) => rank: index + 1) *)
RankTop(tokens, f, n) ==
  LET top == SliceTo(SortDescBy(tokens, f), n)
  IN  [i \in 1..Len(top) |-> WithRank(top[i], i)]

(* A variant with the fallback policy: all records when none qualifies *)
FilteredTokensOrAll(recentTokens) ==
  IF \E i \in 1..Len(recentTokens) : MeetsCriteria(recentTokens[i])
    THEN SelectIdx(recentTokens,
           [i \in 1..Len(recentTokens) |-> MeetsCriteria(recentTokens[i])], 1)
    ELSE recentTokens

FilteredTokens(recentTokens) ==
  SelectIdx(recentTokens, [i \in 1..Len(recentTokens) |-> MeetsCriteria(recentTokens[i])], 1)

QualifiedTokens(filteredTokens) ==
  LET statsMap == DeployerStatsMap(filteredTokens)
      good == SelectIdx(filteredTokens,
                [i \in 1..Len(filteredTokens) |-> GoodDeployer(filteredTokens[i], statsMap)], 1)
  IN  [i \in 1..Len(good) |-> WithBondingRate(good[i], statsMap)]

analyzeTokensBody(o, t) ==
  LET fetched == fetchRecentTokens(o, t)
  IN  IF fetched.threw THEN Throw
      ELSE IF fetched.value = <<>> THEN Return(<<>>)
      ELSE LET filteredTokens == FilteredTokens(fetched.value)
           IN  IF filteredTokens = <<>> THEN Return(<<>>)
               ELSE Return(RankTop(QualifiedTokens(filteredTokens), "bondingRate", TOP_N))

analyzeTokens(o, t) == TryCatch(analyzeTokensBody(o, t), Return(<<>>))

----------------------------------------------------------------------------
(* fetchHighVolumeTokens, route.ts:89-165 *)

(* parseFloat(pair.priceUsd) || 0, for the price strings of the model *)
ParseFloatOrZero(s) ==
  CASE s = "2" -> 2
    [] s = "3" -> 3
    [] OTHER -> 0

(* A variant that asks for the 24h volume only *)
HasAnyVolume(p) == p.volumeH24 > 0

HasVolume(p) == p.volumeH24 > 0 /\ p.buys24 > 0

VolumeToken(p, index) ==
  [rank |-> index,
   symbol |-> IF p.symbol = "" THEN "UNKNOWN" ELSE p.symbol,
   name |-> IF p.name = "" THEN "Unknown Token" ELSE p.name,
   volume1h |-> p.volumeH1,
   volume24h |-> p.volumeH24,
   priceUsd |-> ParseFloatOrZero(p.priceUsd),
   priceChange1h |-> p.priceChangeH1,
   priceChange24h |-> p.priceChangeH24,
   marketCap |-> IF p.fdv # 0 THEN p.fdv ELSE p.liquidityUsd,
   txns1h |-> p.buys1 + p.sells1,
   url |-> p.url,
   pairAddress |-> p.pairAddress]

fetchHighVolumeTokensBody(o) ==
  IF o.kind \in {"reject", "badJson", "nullBody"} THEN Throw
  ELSE IF o.kind = "notOk" THEN Return(<<>>)
  ELSE LET pairsWithVolume ==
             SelectIdx(o.pairs, [i \in 1..Len(o.pairs) |-> HasVolume(o.pairs[i])], 1)
           top == SliceTo(SortDescBy(pairsWithVolume, "volumeH24"), VOLUME_TOP_N)
       IN  IF pairsWithVolume = <<>> THEN Return(<<>>)
           ELSE Return([i \in 1..Len(top) |-> VolumeToken(top[i], i)])

fetchHighVolumeTokens(o) == TryCatch(fetchHighVolumeTokensBody(o), Return(<<>>))

----------------------------------------------------------------------------
(* The GET handler, route.ts:249-309 *)

(* The requests in flight: how many GET invocations of each view, started *)
(* at each time, await their upstream call.                                *)
Views == {"default", "volume"}
Times == {StartTime + k * Step : k \in 0..MaxTicks}
NoRequests == [v \in Views, t \in Times |-> 0]
NoResp == [status |-> 0]
NoRun == [op |-> "none"]

RECURSIVE SumOver(_, _)
SumOver(f, D) ==
  IF D = {} THEN 0
  ELSE LET d == CHOOSE x \in D : TRUE IN f[d] + SumOver(f, D \ {d})

InFlight == SumOver(req, Views \X Times)

(* A variant that looks at the age of the slot only *)
IsStaleByAgeOnly(now, last, list) == now - last > CACHE_DURATION

IsStaleAtDuration(now, last, list) == now - last >= CACHE_DURATION \/ list = <<>>

IsStaleInverted(now, last, list) == now - last < CACHE_DURATION \/ list = <<>>

(* now - lastFetchTime > CACHE_DURATION || cachedTokens.length === 0 *)
(* A variant that holds a slot fresh while a request is in flight *)
IsStaleAndIdle(now, last, list) ==
  (now - last > CACHE_DURATION \/ list = <<>>) /\ InFlight = 0

IsStale(now, last, list) == now - last > CACHE_DURATION \/ list = <<>>

(* NextResponse.json({success: true, tokens, lastUpdated, nextUpdate, message}),   *)
(* with what the model observes of the request: its view, whether it was answered  *)
(* without a recompute (hit), the upstream calls it issued (fetches) and whether   *)
(* its upstream call failed.  The response is sent at the time clock.              *)
DefaultResponse(tokens, last, hit, fetches, failed) ==
  [status |-> 200, success |-> TRUE, tokens |-> tokens, lastUpdated |-> last,
   nextUpdate |-> last + CACHE_DURATION,
   message |-> IF tokens = <<>> THEN "No tokens found matching criteria" ELSE "",
   view |-> "default", hit |-> hit, fetches |-> fetches,
   upstreamFailed |-> failed]

VolumeResponse(tokens, last, hit, fetches, failed) ==
  [status |-> 200, success |-> TRUE, tokens |-> tokens, lastUpdated |-> last,
   nextUpdate |-> last + CACHE_DURATION, count |-> Len(tokens),
   view |-> "volume", hit |-> hit, fetches |-> fetches,
   upstreamFailed |-> failed]

(* The catch of GET, route.ts:298-308 *)
ErrorResponse(view, failed) ==
  [status |-> 500, success |-> FALSE, error |-> "Failed to fetch tokens",
   view |-> view, hit |-> FALSE, fetches |-> 1, upstreamFailed |-> failed]

(* searchParams.get('type'), route.ts:256: the page asks for no type (null, *)
(* here ""), for 'volume' and for 'trending'.                              *)
RequestTypes == {"", "volume", "trending"}

(* GET up to its first await: the request reads the clock and its slot; a  *)
(* fresh slot is answered at once, a stale or empty one starts the fetch.  *)
(* route.ts:259 sends the type 'volume' to the volume branch and every     *)
(* other type to the regular branch.                                       *)
GetStartDefault(type) ==
  /\ type # "volume"
  /\ InFlight < MaxReq
  /\ IF IsStale(clock, lastFetchTime, cachedTokens)
       THEN /\ req' = [req EXCEPT !["default", clock] = @ + 1]
            /\ resp' = NoResp
       ELSE /\ req' = req
            /\ resp' = DefaultResponse(cachedTokens, lastFetchTime, TRUE, 0, FALSE)
  /\ UNCHANGED <<clock, cachedTokens, lastFetchTime, cachedVolumeTokens,
                 lastVolumeFetchTime, run>>

GetStartVolume(type) ==
  /\ type = "volume"
  /\ InFlight < MaxReq
  /\ IF IsStale(clock, lastVolumeFetchTime, cachedVolumeTokens)
       THEN /\ req' = [req EXCEPT !["volume", clock] = @ + 1]
            /\ resp' = NoResp
       ELSE /\ req' = req
            /\ resp' = VolumeResponse(cachedVolumeTokens, lastVolumeFetchTime, TRUE, 0, FALSE)
  /\ UNCHANGED <<clock, cachedTokens, lastFetchTime, cachedVolumeTokens,
                 lastVolumeFetchTime, run>>

(* A variant that sends no response when the upstream call failed *)
ResolveDefaultDropsFailure(now, o) ==
  /\ req["default", now] > 0
  /\ LET result == analyzeTokens(o, clock)
     IN  IF o.kind # "ok"
           THEN /\ resp' = NoResp
                /\ UNCHANGED <<cachedTokens, lastFetchTime>>
           ELSE /\ cachedTokens' = result.value
                /\ lastFetchTime' = now
                /\ resp' = DefaultResponse(result.value, now, FALSE, 1, FALSE)
  /\ req' = [req EXCEPT !["default", now] = @ - 1]
  /\ UNCHANGED <<clock, cachedVolumeTokens, lastVolumeFetchTime, run>>

(* A variant that keeps the list it has when the recompute gives none *)
ResolveDefaultKeepsList(now, o) ==
  /\ req["default", now] > 0
  /\ LET result == analyzeTokens(o, clock)
     IN  IF result.threw
           THEN /\ resp' = ErrorResponse("default", o.kind # "ok")
                /\ UNCHANGED <<cachedTokens, lastFetchTime>>
           ELSE IF result.value = <<>>
             THEN /\ resp' = DefaultResponse(cachedTokens, lastFetchTime, FALSE, 1, o.kind # "ok")
                  /\ UNCHANGED <<cachedTokens, lastFetchTime>>
           ELSE /\ cachedTokens' = result.value
                /\ lastFetchTime' = now
                /\ resp' = DefaultResponse(result.value, now, FALSE, 1, o.kind # "ok")
  /\ req' = [req EXCEPT !["default", now] = @ - 1]
  /\ UNCHANGED <<clock, cachedVolumeTokens, lastVolumeFetchTime, run>>

(* A variant that stores the list when the upstream call settles and       *)
(* leaves the fetch time to a later step                                   *)
ResolveDefaultListOnly(now, o) ==
  /\ req["default", now] > 0
  /\ LET result == analyzeTokens(o, clock)
     IN  IF result.threw
           THEN /\ resp' = ErrorResponse("default", o.kind # "ok")
                /\ UNCHANGED <<cachedTokens, lastFetchTime>>
           ELSE /\ cachedTokens' = result.value
                /\ lastFetchTime' = lastFetchTime
                /\ resp' = DefaultResponse(result.value, lastFetchTime, FALSE, 1, o.kind # "ok")
  /\ req' = [req EXCEPT !["default", now] = @ - 1]
  /\ UNCHANGED <<clock, cachedVolumeTokens, lastVolumeFetchTime, run>>

(* The upstream call of a default request that started at time now         *)
(* settles: analyzeTokens runs to its end, GET stores the list with the    *)
(* time the request started at, and answers.                               *)
ResolveDefault(now, o) ==
  /\ req["default", now] > 0
  /\ LET result == analyzeTokens(o, clock)
     IN  IF result.threw
           THEN /\ resp' = ErrorResponse("default", o.kind # "ok")
                /\ UNCHANGED <<cachedTokens, lastFetchTime>>
           ELSE /\ cachedTokens' = result.value
                /\ lastFetchTime' = now
                /\ resp' = DefaultResponse(result.value, now, FALSE, 1, o.kind # "ok")
  /\ req' = [req EXCEPT !["default", now] = @ - 1]
  /\ UNCHANGED <<clock, cachedVolumeTokens, lastVolumeFetchTime, run>>

(* A variant with one fetch time shared by the two slots *)
ResolveVolumeSharedStamp(now, o) ==
  /\ req["volume", now] > 0
  /\ LET result == fetchHighVolumeTokens(o)
     IN  /\ cachedVolumeTokens' = result.value
         /\ lastVolumeFetchTime' = now
         /\ lastFetchTime' = now
         /\ resp' = VolumeResponse(result.value, now, FALSE, 1, o.kind # "ok")
  /\ req' = [req EXCEPT !["volume", now] = @ - 1]
  /\ UNCHANGED <<clock, cachedTokens, run>>

ResolveVolume(now, o) ==
  /\ req["volume", now] > 0
  /\ LET result == fetchHighVolumeTokens(o)
     IN  IF result.threw
           THEN /\ resp' = ErrorResponse("volume", o.kind # "ok")
                /\ UNCHANGED <<cachedVolumeTokens, lastVolumeFetchTime>>
           ELSE /\ cachedVolumeTokens' = result.value
                /\ lastVolumeFetchTime' = now
                /\ resp' = VolumeResponse(result.value, now, FALSE, 1, o.kind # "ok")
  /\ req' = [req EXCEPT !["volume", now] = @ - 1]
  /\ UNCHANGED <<clock, cachedTokens, lastFetchTime, run>>

Tick ==
  /\ clock < MaxClock
  /\ clock' = clock + Step
  /\ resp' = NoResp
  /\ UNCHANGED <<cachedTokens, lastFetchTime, cachedVolumeTokens,
                 lastVolumeFetchTime, req, run>>

Init ==
  /\ clock = StartTime
  /\ cachedTokens = <<>>
  /\ lastFetchTime = 0
  /\ cachedVolumeTokens = <<>>
  /\ lastVolumeFetchTime = 0
  /\ req = NoRequests
  /\ resp = NoResp
  /\ run = NoRun

Next ==
  \/ Tick
  \/ \E type \in RequestTypes : GetStartDefault(type)
  \/ \E type \in RequestTypes : GetStartVolume(type)
  \/ \E t \in Times, o \in HandlerOutcomes : ResolveDefault(t, o)
  \/ \E t \in Times, o \in HandlerOutcomes : ResolveVolume(t, o)

Spec == Init /\ [][Next]_vars

----------------------------------------------------------------------------
(* Claims about the handler, checked under Spec *)

(* The request is answered from the slot in this step: no fetch is started,  *)
(* the slot is left as it was, and the response carries the slot's list    *)
(* and fetch time.                                                         *)
ServedFromCache(list, last) ==
  /\ req' = req
  /\ resp'.status = 200 /\ resp'.hit /\ resp'.fetches = 0
  /\ resp'.tokens = list /\ resp'.lastUpdated = last
  /\ UNCHANGED <<cachedTokens, lastFetchTime, cachedVolumeTokens, lastVolumeFetchTime>>

(* The request starts a recompute in this step: it is left awaiting its    *)
(* upstream call and no response is sent.                                  *)
StartsRecompute(view) ==
  req' = [req EXCEPT ![view, clock] = @ + 1] /\ resp' = NoResp

C2_StaleAtExactlyDuration ==
  [][
       /\ ((\E type \in RequestTypes : GetStartDefault(type)) /\ clock - lastFetchTime = CACHE_DURATION)
            => StartsRecompute("default")
       /\ ((\E type \in RequestTypes : GetStartVolume(type)) /\ clock - lastVolumeFetchTime = CACHE_DURATION)
            => StartsRecompute("volume")]_vars

(* C2, amended: a slot is treated as fresh iff now - lastFetchTime <=      *)
(* CACHE_DURATION and its list is not empty: a request that arrives        *)
(* exactly CACHE_DURATION after the stamp is still answered from the       *)
(* cache, a later one recomputes, and so does every request that finds the *)
(* empty list.                                                             *)
C2_FreshIffWithinDurationAndNonEmpty ==
  [][
       /\ (\E type \in RequestTypes : GetStartDefault(type)) =>
            IF clock - lastFetchTime <= CACHE_DURATION /\ cachedTokens # <<>>
              THEN ServedFromCache(cachedTokens, lastFetchTime)
              ELSE StartsRecompute("default")
       /\ (\E type \in RequestTypes : GetStartVolume(type)) =>
            IF clock - lastVolumeFetchTime <= CACHE_DURATION /\ cachedVolumeTokens # <<>>
              THEN ServedFromCache(cachedVolumeTokens, lastVolumeFetchTime)
              ELSE StartsRecompute("volume")]_vars

(* C2, witness: a response served from the cache exactly CACHE_DURATION    *)
(* after the slot was stamped.                                             *)
C2_Witness ==
  resp.status = 200 /\ resp.hit /\ clock - resp.lastUpdated = CACHE_DURATION

(* C3, as the spec states it: a request whose upstream call failed is      *)
(* answered with success = false and no tokens.                            *)
C3_UpstreamFailureAnswersFailure ==
  (resp.status # 0 /\ resp.upstreamFailed) =>
    (resp.success = FALSE /\ (resp.status = 200 => resp.tokens = <<>>))

(* C3, amended: a request whose upstream call rejected, threw or answered  *)
(* with an error status is answered with HTTP 200, success = true and the  *)
(* empty token list, and the handler can take the next request.            *)
C3_UpstreamFailureAnswersEmptySuccess ==
  (resp.status # 0 /\ resp.upstreamFailed) =>
    /\ resp.status = 200 /\ resp.success = TRUE /\ resp.tokens = <<>>
    /\ InFlight < MaxReq

(* C3, witness: the response to a default request whose upstream failed *)
C3_Witness ==
  resp.status # 0 /\ resp.upstreamFailed /\ resp.view = "default"

(* C8, as the spec states it: every token of a default-view response was   *)
(* created within the 60 minutes before the response, recomputed or served *)
(* from the cache.                                                         *)
C8_TokensRecentAtResponse ==
  (resp.status = 200 /\ resp.view = "default") =>
    \A i \in 1..Len(resp.tokens) : resp.tokens[i].createdAt > clock - ONE_HOUR

(* C8, amended: every token of a default-view response was created less    *)
(* than 60 minutes before the response's lastUpdated, the start of the     *)
(* request that recomputed the list; at the time of the response the token *)
(* is older than that by the age of the cached list.                       *)
C8_TokensRecentAtLastUpdated ==
  (resp.status = 200 /\ resp.view = "default") =>
    \A i \in 1..Len(resp.tokens) :
      resp.tokens[i].createdAt > resp.lastUpdated - ONE_HOUR

(* C8, witness: a cached default list answered later than it was fetched *)
C8_Witness ==
  /\ resp.status = 200 /\ resp.view = "default" /\ resp.hit
  /\ resp.tokens # <<>> /\ clock > resp.lastUpdated

----------------------------------------------------------------------------
(* calculateDeployerStats applied to addresses, one call and a second call *)
(* with the same address: route.ts:167-179 and the mock revision,          *)
(* part_003:63-78.                                                         *)

AddrCodes == {49, 65, 122, 55357}
StatsInputs == SeqsUpTo(AddrCodes, MaxAddrLen) \cup {Unknown}
MockInputs == {<<>>, Unknown}

(* The mock revision: totalTokens = floor(random * 20) + 5 and             *)
(* bondedTokens = floor(totalTokens * (random * 0.5 + 0.3)), every draw    *)
(* of random in [0, 1) being possible; bondingRate is the quotient         *)
(* bondedTokens / totalTokens * 100, kept as numerator and denominator.    *)
MockStats(deployer) ==
  {[address |-> deployer, totalTokens |-> total, bondedTokens |-> bonded,
    bondingRate |-> [num |-> bonded * 100, den |-> total]] :
     <<total, bonded>> \in
       {tb \in (5..24) \X (0..24) :
          10 * tb[2] < 8 * tb[1] /\ 10 * (tb[2] + 1) > 3 * tb[1]}}

CallStats(a) ==
  /\ run.op = "none"
  /\ run' = [op |-> "stats", variant |-> "hash", deployer |-> a,
             first |-> calculateDeployerStats(a)]
  /\ UNCHANGED <<clock, cachedTokens, lastFetchTime, cachedVolumeTokens,
                 lastVolumeFetchTime, req, resp>>

CallStatsAgain ==
  /\ run.op = "stats" /\ run.variant = "hash"
  /\ run' = [op |-> "again", variant |-> "hash", deployer |-> run.deployer,
             first |-> run.first,
             second |-> calculateDeployerStats(run.deployer)]
  /\ UNCHANGED <<clock, cachedTokens, lastFetchTime, cachedVolumeTokens,
                 lastVolumeFetchTime, req, resp>>

CallMockStats(a) ==
  /\ run.op = "none"
  /\ \E stats \in MockStats(a) :
       run' = [op |-> "stats", variant |-> "mock", deployer |-> a, first |-> stats]
  /\ UNCHANGED <<clock, cachedTokens, lastFetchTime, cachedVolumeTokens,
                 lastVolumeFetchTime, req, resp>>

CallMockStatsAgain ==
  /\ run.op = "stats" /\ run.variant = "mock"
  /\ \E stats \in MockStats(run.deployer) :
       run' = [op |-> "again", variant |-> "mock", deployer |-> run.deployer,
               first |-> run.first, second |-> stats]
  /\ UNCHANGED <<clock, cachedTokens, lastFetchTime, cachedVolumeTokens,
                 lastVolumeFetchTime, req, resp>>

NextStats ==
  \/ \E a \in StatsInputs : CallStats(a)
  \/ CallStatsAgain
  \/ \E a \in MockInputs : CallMockStats(a)
  \/ CallMockStatsAgain

SpecStats == Init /\ [][NextStats]_vars

(* C9: for every address, the empty string and 'unknown' included, the     *)
(* hash-based calculateDeployerStats yields totalTokens = 5 + hash mod 15, *)
(* in 5..19, bondingRate = 50 + hash mod 40, in 50..89, and bondedTokens = *)
(* floor(totalTokens * bondingRate / 100), hash being the sum of the       *)
(* character codes of the address; 'unknown' has the hash 784 and the      *)
(* empty string the hash 0.                                                *)
C9_StatsFollowHash ==
  (run.op = "stats" /\ run.variant = "hash") =>
    LET hash == SumCodes(run.deployer)
        stats == run.first
    IN  /\ stats.totalTokens \in 5..19
        /\ (stats.totalTokens - 5) % 15 = hash % 15
        /\ stats.bondingRate \in 50..89
        /\ (stats.bondingRate - 50) % 40 = hash % 40
        /\ stats.bondedTokens * 100 <= stats.totalTokens * stats.bondingRate
        /\ stats.totalTokens * stats.bondingRate < (stats.bondedTokens + 1) * 100
        /\ stats.address = run.deployer
        /\ run.deployer = Unknown =>
             hash = 784 /\ stats.totalTokens = 9 /\ stats.bondingRate = 74
                        /\ stats.bondedTokens = 6
        /\ run.deployer = <<>> =>
             hash = 0 /\ stats.totalTokens = 5 /\ stats.bondingRate = 50
                      /\ stats.bondedTokens = 2

(* C9, witness: the stats of an address whose hash exceeds both moduli and *)
(* is a multiple of neither.                                               *)
C9_Witness ==
  /\ run.op = "stats" /\ run.variant = "hash"
  /\ SumCodes(run.deployer) > 40
  /\ run.first.totalTokens > 5 /\ run.first.bondingRate > 50
  /\ run.first.bondedTokens * 100 < run.first.totalTokens * run.first.bondingRate

----------------------------------------------------------------------------
(* The default pipeline and the two rankers applied to inputs:             *)
(* analyzeTokens route.ts:181-247, the ranker of processTokens             *)
(* route.ts:501-507.                                                       *)

(* Pairs on both sides of every threshold: 14 or 15 holders, a liquidity   *)
(* of 5999 or 6000, and the pair addresses 'P' (80) and 'Q' (81), which    *)
(* hash to the bonding rates 50 and 51.  They are pairs of one base token, *)
(* as a search answers with one pair per pool of a token, or pairs without *)
(* a baseToken.address.                                                    *)
FilterPairs ==
  {[PairR EXCEPT !.address = a, !.buys24 = h, !.liquidityUsd = m, !.pairAddress = d] :
     a \in {"mintR", ""}, h \in {14, 15}, m \in {5999, 6000}, d \in {<<80>>, <<81>>}}

Without(token, f) == [g \in DOMAIN token \ {f} |-> token[g]]

(* Two tokens as the ranker receives them: TokenQ has 20 holders and the   *)
(* bonding rate 51, TokenR has 15 holders and the bonding rate 52.         *)
TokenQ == QualifiedTokens(<<NormalizeRecent(PairQ)>>)[1]
TokenR == QualifiedTokens(<<NormalizeRecent(PairR)>>)[1]
RankInputs == SeqsUpTo({TokenQ, TokenR}, MaxRankLen)

(* One run of analyzeTokens over an upstream body, with the lists of its   *)
(* stages: fetched, past the threshold filter, the deployers the loop of   *)
(* route.ts:211-214 calls calculateDeployerStats for, past the deployer    *)
(* filter (the ranker's input), ranked,                                    *)
(* and the response GET makes of the ranked list (route.ts:284-296).       *)
RunPipeline(o) ==
  /\ run.op = "none"
  /\ LET fetched == fetchRecentTokens(o, clock).value
         ranked == analyzeTokens(o, clock).value
     IN  run' = [op |-> "analyze", fetched |-> fetched,
                 filtered |-> FilteredTokens(fetched),
                 statsCalls |-> UniqueDeployers(FilteredTokens(fetched)),
                 qualified |-> QualifiedTokens(FilteredTokens(fetched)),
                 ranked |-> ranked,
                 response |-> DefaultResponse(ranked, clock, FALSE, 1, o.kind # "ok")]
  /\ UNCHANGED <<clock, cachedTokens, lastFetchTime, cachedVolumeTokens,
                 lastVolumeFetchTime, req, resp>>

(* analyzeTokens' ranker, route.ts:231-237 *)
RankByBondingRate(tokens) ==
  /\ run.op = "none"
  /\ run' = [op |-> "rank", key |-> "bondingRate", n |-> TOP_N, input |-> tokens,
             output |-> RankTop(tokens, "bondingRate", TOP_N)]
  /\ UNCHANGED <<clock, cachedTokens, lastFetchTime, cachedVolumeTokens,
                 lastVolumeFetchTime, req, resp>>

(* processTokens' ranker, route.ts:501-507 *)
RankByHolders(tokens) ==
  /\ run.op = "none"
  /\ run' = [op |-> "rank", key |-> "holders", n |-> HOLDERS_TOP_N, input |-> tokens,
             output |-> RankTop(tokens, "holders", HOLDERS_TOP_N)]
  /\ UNCHANGED <<clock, cachedTokens, lastFetchTime, cachedVolumeTokens,
                 lastVolumeFetchTime, req, resp>>

NextPipeline ==
  \/ \E o \in Bodies(FilterPairs, MaxPairs) : RunPipeline(o)
  \/ \E tokens \in RankInputs : RankByBondingRate(tokens)
  \/ \E tokens \in RankInputs : RankByHolders(tokens)

SpecPipeline == Init /\ [][NextPipeline]_vars

(* C6: the ranker's output has at most topN elements, 10 when it orders by *)
(* bondingRate and 5 when it orders by holders, its sort keys never        *)
(* increase along the list, and every element of the output is, but for    *)
(* the rank it was given, an element of the input.                         *)
C6_RankerBoundedSortedSubset ==
  run.op = "rank" =>
    /\ run.key = "bondingRate" => run.n = 10
    /\ run.key = "holders" => run.n = 5
    /\ Len(run.output) <= run.n
    /\ \A i \in 1..Len(run.output) : \A j \in i..Len(run.output) :
         run.output[i][run.key] >= run.output[j][run.key]
    /\ \A i \in 1..Len(run.output) :
         \E k \in 1..Len(run.input) : Without(run.output[i], "rank") = run.input[k]

(* C6, witness: more than ten tokens, not in order of their bonding rates, *)
(* ranked by bondingRate and cut to ten.                                   *)
C6_Witness ==
  /\ run.op = "rank" /\ run.key = "bondingRate"
  /\ Len(run.input) > 10 /\ Len(run.output) = 10
  /\ run.input[1].bondingRate < run.input[Len(run.input)].bondingRate
  /\ run.output[1].bondingRate > run.output[10].bondingRate

----------------------------------------------------------------------------
(* The source fetchers run call by call: fetchRecentTokens route.ts:31-87, *)
(* fetchHighVolumeTokens route.ts:89-165, fetchTrendingTokens              *)
(* part_001:91-259 with processTrendingPairs part_001:262-324.             *)

(* How a call of fetch can settle: the promise rejects ("reject"), an      *)
(* error status with a JSON body of no known field ("notOk") or with a     *)
(* body that is no JSON ("notOkText"), a 2xx status with a body that is no *)
(* JSON ("badJson"), that is the JSON null ("nullBody") or that is a JSON  *)
(* object of another shape ("wrongShape"), and a 2xx status with the       *)
(* expected body ("ok").                                                   *)
FailureKinds == {"reject", "notOk", "notOkText", "badJson", "nullBody", "wrongShape"}
FailedCalls == {[kind |-> k, pairs |-> <<>>, items |-> <<>>] : k \in FailureKinds}

(* Pairs with activity in the last hour, and PairQ, which has none *)
TrendPairQ == [PairQ EXCEPT !.buys1 = 4, !.sells1 = 1, !.volumeH1 = 100,
                 !.priceChangeH1 = 2, !.hasPriceChangeH1 = TRUE]
TrendPairR == [PairR EXCEPT !.buys1 = 1, !.sells1 = 3, !.volumeH1 = 200,
                 !.priceChangeH1 = -1, !.hasPriceChangeH1 = TRUE]
TrendPairs == {TrendPairQ, TrendPairR, PairQ}

BoostItems == {[chainId |-> "solana", tokenAddress |-> "mintQ"],
               [chainId |-> "solana", tokenAddress |-> "mintR"],
               [chainId |-> "ethereum", tokenAddress |-> "0xE"]}

BoostOutcomes ==
  FailedCalls \cup {[kind |-> "ok", pairs |-> <<>>, items |-> its] :
                      its \in SeqsUpTo(BoostItems, MaxItems)}
SearchOutcomes ==
  FailedCalls \cup {[kind |-> "ok", pairs |-> ps, items |-> <<>>] :
                      ps \in SeqsUpTo(TrendPairs, MaxPairs)}
PairOutcomes ==
  FailedCalls \cup {[kind |-> "ok", pairs |-> ps, items |-> <<>>] :
                      ps \in SeqsUpTo(TrendPairs, 1)}
FetchOutcomes == Failures \cup Bodies(HandlerPairs, MaxPairs)

GenericNames == {"SOL", "Solana", "Wrapped SOL", "WSOL", "wSOL"}

TrendingName(p) ==
  LET tokenName == IF p.name = "" THEN "Unknown Token" ELSE p.name
  IN  IF tokenName \in GenericNames \/ tokenName = p.symbol
        THEN IF p.symbol # "" /\ p.symbol \notin GenericNames
               THEN p.symbol ELSE "Unknown Token"
        ELSE tokenName

TrendingToken(p, rank) ==
  [rank |-> rank,
   symbol |-> IF p.symbol = "" THEN "UNKNOWN" ELSE p.symbol,
   name |-> TrendingName(p),
   volume1h |-> p.volumeH1,
   volume24h |-> p.volumeH24,
   priceUsd |-> ParseFloatOrZero(p.priceUsd),
   priceChange1h |-> p.priceChangeH1,
   priceChange24h |-> p.priceChangeH24,
   marketCap |-> IF p.fdv # 0 THEN p.fdv ELSE p.liquidityUsd,
   txns1h |-> p.buys1 + p.sells1,
   buys1h |-> p.buys1,
   sells1h |-> p.sells1,
   url |-> p.url,
   pairAddress |-> p.pairAddress]

(* 1000 * Math.log(volume1h + 1), rounded, for the volumes of the model *)
LogTimes1000(v) ==
  CASE v = 0 -> 0
    [] v = 100 -> 4615
    [] v = 200 -> 5303

Abs(x) == IF x < 0 THEN 0 - x ELSE x

(* 1000 * trendingScore; the scores of the model's pairs lie further apart *)
(* than the rounding of the logarithm.                                     *)
WithTrendingScore(p) ==
  [f \in DOMAIN p \cup {"trendingScore"} |->
     IF f = "trendingScore"
       THEN Abs(p.priceChangeH1) * 3000 + (p.buys1 + p.sells1) * 200
            + (LogTimes1000(p.volumeH1) * 3) \div 2
            + (IF p.buys1 > p.sells1 THEN 15000 ELSE 0)
       ELSE p[f]]

IsActive(p) == p.buys1 > 0 /\ p.volumeH1 > 0 /\ p.hasPriceChangeH1

processTrendingPairs(pairs) ==
  LET activePairs == SelectIdx(pairs, [i \in 1..Len(pairs) |-> IsActive(pairs[i])], 1)
      scoredPairs == [i \in 1..Len(activePairs) |-> WithTrendingScore(activePairs[i])]
      top == SliceTo(SortDescBy(scoredPairs, "trendingScore"), TRENDING_TOP_N)
  IN  [i \in 1..Len(top) |-> TrendingToken(Without(top[i], "trendingScore"), i)]

(* The position of the fetcher between two calls: where it goes next, or   *)
(* the list it returns.                                                    *)
GoTo(pc, sol, tokens, i) ==
  [goto |-> pc, solanaTrending |-> sol, trendingTokens |-> tokens, i |-> i, list |-> <<>>]
Finish(list) ==
  [goto |-> "done", solanaTrending |-> <<>>, trendingTokens |-> <<>>, i |-> 0, list |-> list]

(* A variant that asks the boosts endpoint again after an error status *)
BoostsBodyRetry(o) ==
  IF o.kind \in {"reject", "badJson", "wrongShape"} THEN Throw
  ELSE IF o.kind \in {"notOk", "notOkText"}
    THEN Return(GoTo("boosts", <<>>, <<>>, 0))
  ELSE Return(GoTo("fallback", <<>>, <<>>, 0))

(* part_001:97-151: the boosts call and what follows it up to the next call *)
BoostsBody(o) ==
  IF o.kind \in {"reject", "badJson", "wrongShape"} THEN Throw
  ELSE IF o.kind \in {"notOk", "notOkText"}
    THEN Return(GoTo("fallbackChecked", <<>>, <<>>, 0))
  ELSE LET data == IF o.kind = "nullBody" THEN <<>> ELSE o.items
           solanaTrending ==
             SliceTo(SelectIdx(data, [i \in 1..Len(data) |-> data[i].chainId = "solana"], 1),
                     BOOST_LIMIT)
       IN  IF solanaTrending = <<>> THEN Return(GoTo("fallback", <<>>, <<>>, 0))
           ELSE Return(GoTo("pairs", solanaTrending, <<>>, 0))

(* part_001:107-128: the fallback whose status is tested *)
FallbackCheckedBody(o) ==
  IF o.kind \in {"reject", "badJson", "nullBody"} THEN Throw
  ELSE IF o.kind \in {"notOk", "notOkText"} THEN Return(Finish(<<>>))
  ELSE Return(Finish(processTrendingPairs(o.pairs)))

(* part_001:138-151 and 221-234: the fallbacks whose status is not tested *)
FallbackBody(o) ==
  IF o.kind \in {"reject", "notOkText", "badJson", "nullBody"} THEN Throw
  ELSE Return(Finish(processTrendingPairs(o.pairs)))

(* part_001:159-218: one pair lookup of the loop, inside its own try *)
PairLookupBody(o, tokens, i) ==
  IF o.kind \in {"reject", "badJson", "nullBody"} THEN Throw
  ELSE IF o.kind = "ok" /\ o.pairs # <<>>
    THEN Return(Append(tokens, TrendingToken(o.pairs[1], i + 1)))
  ELSE Return(tokens)

Min(a, b) == IF a <= b THEN a ELSE b

(* part_001:156-237: one turn of the loop and, after the last, the return *)
PairsBody(o, sol, tokens, i) ==
  LET pushed == TryCatch(PairLookupBody(o, tokens, i), Return(tokens))
  IN  IF pushed.threw THEN Throw
      ELSE IF i + 1 < Min(TRENDING_LOOKUPS, Len(sol))
        THEN Return(GoTo("pairs", sol, pushed.value, i + 1))
      ELSE IF pushed.value = <<>> THEN Return(GoTo("fallback", <<>>, <<>>, 0))
      ELSE Return(Finish(pushed.value))

(* part_001:239-258: the final fallback, inside the catch *)
FinalBody(o) ==
  IF o.kind \in {"reject", "notOkText", "badJson", "nullBody"} THEN Throw
  ELSE Return(Finish(processTrendingPairs(o.pairs)))

NoResult == [threw |-> FALSE, value |-> <<>>]

(* The log of the upstream calls of the run: the endpoint (for a pair      *)
(* lookup, with the token address in its URL), whether the call failed,    *)
(* and the pairs it delivered.                                             *)
Called(name, target, o) ==
  Append(run.calls, [call |-> name, target |-> target, failed |-> o.kind # "ok",
                     pairs |-> o.pairs])

(* The fetcher moves on after a call: an exception no catch took leaves    *)
(* it, otherwise it returns a list or waits for its next call.             *)
Advance(step, calls) ==
  IF step.threw
    THEN run' = [run EXCEPT !.pc = "done", !.calls = calls, !.result = Throw]
    ELSE run' = [run EXCEPT !.pc = step.value.goto, !.calls = calls,
                            !.i = step.value.i,
                            !.solanaTrending =
                               IF step.value.goto = "pairs"
                                 THEN step.value.solanaTrending ELSE @,
                            !.trendingTokens = step.value.trendingTokens,
                            !.result = Return(step.value.list)]

OneCall(name, result, o) ==
  [op |-> name, pc |-> "done", i |-> 0, solanaTrending |-> <<>>,
   trendingTokens |-> <<>>,
   calls |-> <<[call |-> "search", target |-> "", failed |-> o.kind # "ok",
               pairs |-> o.pairs]>>,
   result |-> result]

CallRecent(o) ==
  /\ run.op = "none"
  /\ run' = OneCall("recent", fetchRecentTokens(o, clock), o)
  /\ UNCHANGED <<clock, cachedTokens, lastFetchTime, cachedVolumeTokens,
                 lastVolumeFetchTime, req, resp>>

CallVolume(o) ==
  /\ run.op = "none"
  /\ run' = OneCall("volume", fetchHighVolumeTokens(o), o)
  /\ UNCHANGED <<clock, cachedTokens, lastFetchTime, cachedVolumeTokens,
                 lastVolumeFetchTime, req, resp>>

StartTrending ==
  /\ run.op = "none"
  /\ run' = [op |-> "trending", pc |-> "boosts", i |-> 0, solanaTrending |-> <<>>,
             trendingTokens |-> <<>>, calls |-> <<>>, result |-> NoResult]
  /\ UNCHANGED <<clock, cachedTokens, lastFetchTime, cachedVolumeTokens,
                 lastVolumeFetchTime, req, resp>>

BoostsSettle(o) ==
  /\ run.op = "trending" /\ run.pc = "boosts"
  /\ Advance(TryCatch(BoostsBody(o), Return(GoTo("final", <<>>, <<>>, 0))),
             Called("boosts", "", o))
  /\ UNCHANGED <<clock, cachedTokens, lastFetchTime, cachedVolumeTokens,
                 lastVolumeFetchTime, req, resp>>

FallbackCheckedSettle(o) ==
  /\ run.op = "trending" /\ run.pc = "fallbackChecked"
  /\ Advance(TryCatch(FallbackCheckedBody(o), Return(GoTo("final", <<>>, <<>>, 0))),
             Called("search", "", o))
  /\ UNCHANGED <<clock, cachedTokens, lastFetchTime, cachedVolumeTokens,
                 lastVolumeFetchTime, req, resp>>

FallbackSettle(o) ==
  /\ run.op = "trending" /\ run.pc = "fallback"
  /\ Advance(TryCatch(FallbackBody(o), Return(GoTo("final", <<>>, <<>>, 0))),
             Called("search", "", o))
  /\ UNCHANGED <<clock, cachedTokens, lastFetchTime, cachedVolumeTokens,
                 lastVolumeFetchTime, req, resp>>

PairSettle(o) ==
  /\ run.op = "trending" /\ run.pc = "pairs"
  /\ Advance(TryCatch(PairsBody(o, run.solanaTrending, run.trendingTokens, run.i),
                      Return(GoTo("final", <<>>, <<>>, 0))),
             Called("pair", run.solanaTrending[run.i + 1].tokenAddress, o))
  /\ UNCHANGED <<clock, cachedTokens, lastFetchTime, cachedVolumeTokens,
                 lastVolumeFetchTime, req, resp>>

FinalSettle(o) ==
  /\ run.op = "trending" /\ run.pc = "final"
  /\ Advance(TryCatch(FinalBody(o), Return(Finish(<<>>))), Called("search", "", o))
  /\ UNCHANGED <<clock, cachedTokens, lastFetchTime, cachedVolumeTokens,
                 lastVolumeFetchTime, req, resp>>

NextFetch ==
  \/ \E o \in FetchOutcomes : CallRecent(o)
  \/ \E o \in FetchOutcomes : CallVolume(o)
  \/ StartTrending
  \/ \E o \in BoostOutcomes : BoostsSettle(o)
  \/ \E o \in SearchOutcomes : FallbackCheckedSettle(o)
  \/ \E o \in SearchOutcomes : FallbackSettle(o)
  \/ \E o \in PairOutcomes : PairSettle(o)
  \/ \E o \in SearchOutcomes : FinalSettle(o)

SpecFetch == Init /\ [][NextFetch]_vars

(* A fetcher has returned to its caller *)
Returned == run.op \in {"recent", "volume", "trending"} /\ run.pc = "done"

(* The token is what the fetcher makes of the pair p *)
BuiltFrom(token, p) ==
  CASE run.op = "recent" -> token = NormalizeRecent(p)
    [] run.op = "volume" -> token = VolumeToken(p, token.rank)
    [] run.op = "trending" -> token = TrendingToken(p, token.rank)

(* The token is built from a pair that one of the calls ks delivered *)
BuiltFromCalls(token, ks) ==
  \E k \in ks :
    /\ ~run.calls[k].failed
    /\ \E j \in 1..Len(run.calls[k].pairs) : BuiltFrom(token, run.calls[k].pairs[j])

(* C4, as the spec states it: a fetcher never throws to its caller, and    *)
(* when one of its upstream calls fails it returns the empty list or a     *)
(* list built from successful calls that came before the failed one.       *)
C4_FailureLeavesEarlierCallsOnly ==
  Returned =>
    /\ ~run.result.threw
    /\ \A k \in 1..Len(run.calls) :
         run.calls[k].failed =>
           \A i \in 1..Len(run.result.value) :
             BuiltFromCalls(run.result.value[i], 1..(k - 1))

(* C4, amended: every source fetcher returns a list on every path and      *)
(* never throws to its caller, whichever of its upstream calls, fallback   *)
(* calls included, reject, answer with an error status or with a malformed *)
(* body; every token of the list is built from a pair that a successful    *)
(* call delivered, a call before or after the failed ones, and the list is *)
(* empty when every call failed.                                           *)
C4_FetchersReturnListsOfSuccessfulCalls ==
  Returned =>
    /\ ~run.result.threw
    /\ DOMAIN run.result.value = 1..Len(run.result.value)
    /\ (\A k \in 1..Len(run.calls) : run.calls[k].failed) => run.result.value = <<>>
    /\ \A i \in 1..Len(run.result.value) :
         BuiltFromCalls(run.result.value[i], 1..Len(run.calls))

(* C4, witness: fetchTrendingTokens returns tokens of its final fallback   *)
(* after the boosts call and a pair lookup failed.                         *)
C4_Witness ==
  /\ Returned /\ run.op = "trending" /\ Len(run.calls) >= 3
  /\ run.calls[1].call = "boosts" /\ ~run.calls[1].failed
  /\ \E k \in 2..Len(run.calls) : run.calls[k].call = "pair" /\ run.calls[k].failed
  /\ \E k \in 2..Len(run.calls) : run.calls[k].call = "search" /\ run.calls[k].failed
  /\ run.result.value # <<>>

(* C5: in every list a view's fetcher returns, the rank fields are 1, 2,   *)
(* ..., len(list) in list order, whichever upstream calls succeeded or     *)
(* failed while the list was built.                                        *)
C5_RanksDense ==
  (Returned /\ run.op \in {"volume", "trending"}) =>
    \A i \in 1..Len(run.result.value) : run.result.value[i].rank = i

----------------------------------------------------------------------------
(* Further claims about calculateDeployerStats, checked under SpecStats *)

(* C11: every DeployerStats value calculateDeployerStats produces has      *)
(* bondingRate = bondedTokens / totalTokens * 100, that is bondingRate *   *)
(* totalTokens = bondedTokens * 100, and bondingRate = 0 when totalTokens  *)
(* is 0.                                                                   *)
C11_RateIsQuotientOfCounts ==
  run.op = "stats" =>
    /\ run.first.totalTokens = 0 => run.first.bondingRate = 0
    /\ IF run.variant = "hash"
         THEN run.first.bondingRate * run.first.totalTokens
                = run.first.bondedTokens * 100
         ELSE run.first.bondingRate.num * run.first.totalTokens
                = run.first.bondedTokens * 100 * run.first.bondingRate.den

----------------------------------------------------------------------------
(* Further claims about the handler of route.ts, checked under Spec *)

(* C12: a request with type=trending and a request with type=volume are    *)
(* each served by their own pipeline and cache slot: neither starts a      *)
(* recompute of the default slot, and when it is answered from a cache the *)
(* answer is its own view's, with no record of the default token shape.    *)
C12_TypedRequestsKeepOffDefaultSlot ==
  [][\A type \in {"volume", "trending"} :
       (GetStartDefault(type) \/ GetStartVolume(type)) =>
         /\ req'["default", clock] = req["default", clock]
         /\ resp'.status = 200 =>
              /\ resp'.view = type
              /\ \A i \in 1..Len(resp'.tokens) : "mint" \notin DOMAIN resp'.tokens[i]]_vars

(* C13: the cache slots are independent: every step of a volume request,   *)
(* answered from the cache or recomputing, leaves cachedTokens and         *)
(* lastFetchTime as they were, and every step of a default request leaves  *)
(* cachedVolumeTokens and lastVolumeFetchTime as they were.                *)
(* A step of a request of the view: it answers the view, or a request of  *)
(* the view starts or ends waiting for its upstream.                       *)
StepOfView(view) ==
  \/ resp'.status # 0 /\ resp'.view = view
  \/ \E t \in Times : req'[view, t] # req[view, t]

C13_SlotsIndependent ==
  [][
       /\ StepOfView("volume") => UNCHANGED <<cachedTokens, lastFetchTime>>
       /\ StepOfView("default") =>
            UNCHANGED <<cachedVolumeTokens, lastVolumeFetchTime>>]_vars

(* C13, witness: a volume recompute is answered while the default slot     *)
(* holds a list stamped earlier, and the default slot still has its stamp. *)
C13_Witness ==
  /\ resp.status = 200 /\ resp.view = "volume" /\ ~resp.hit
  /\ cachedVolumeTokens # <<>> /\ cachedTokens # <<>>
  /\ lastFetchTime # 0 /\ lastFetchTime < lastVolumeFetchTime

----------------------------------------------------------------------------
(* The PumpFun revision, part_000: fetchRealPumpFunTokens 13-51,           *)
(* analyzeTokens 66-125, processTokens 127-150, GET 152-185.  It has the   *)
(* default slot only.                                                      *)

(* A coin of the PumpFun API, with the fields the code reads; the API's    *)
(* usd_market_cap is a number or, capIsString, a string of digits.         *)
PumpA == [mint |-> "mintA", name |-> "A coin", symbol |-> "AA", image_uri |-> "",
          twitter |-> "", creator |-> <<65>>, usd_market_cap |-> 500,
          capIsString |-> FALSE, created_timestamp |-> StartTime \div 1000]
PumpB == [mint |-> "", name |-> "", symbol |-> "", image_uri |-> "",
          twitter |-> "", creator |-> <<>>, usd_market_cap |-> 700,
          capIsString |-> TRUE, created_timestamp |-> 0]

PumpBodies == {<<>>, <<PumpA>>, <<PumpB>>}
PumpOutcomes ==
  {[kind |-> k, tokens |-> <<>>] : k \in {"reject", "notOk", "badJson", "nullBody"}}
    \cup {[kind |-> "ok", tokens |-> ts] : ts \in PumpBodies}

(* Math.floor(Math.random() * 20), part_000:88 *)
HolderDraws == 0..19

fetchRealPumpFunTokensBody(o) ==
  IF o.kind \in {"reject", "badJson", "nullBody"} THEN Throw
  ELSE IF o.kind = "notOk" THEN Return(<<>>)
  ELSE Return(o.tokens)

fetchRealPumpFunTokens(o) == TryCatch(fetchRealPumpFunTokensBody(o), Return(<<>>))

Max(a, b) == IF a >= b THEN a ELSE b

(* token.usd_market_cap || 0: the upstream's value as it came *)
CapOrZero(token) ==
  IF token.usd_market_cap = 0 THEN [num |-> 0]
  ELSE IF token.capIsString THEN [str |-> token.usd_market_cap]
  ELSE [num |-> token.usd_market_cap]

(* part_000:81-106: the token made of the coin at position index (from 0), *)
(* at the time t, with the draw of Math.random.                            *)
NormalizePumpFun(token, index, t, draw) ==
  LET deployer == IF token.creator = <<>> THEN Unknown ELSE token.creator
  IN  [mint |-> IF token.mint = "" THEN <<"unknown_", index>> ELSE token.mint,
       name |-> IF token.name = "" THEN "Unknown Token" ELSE token.name,
       symbol |-> IF token.symbol = "" THEN "UNKNOWN" ELSE token.symbol,
       uri |-> IF token.image_uri # "" THEN token.image_uri
               ELSE IF token.twitter # "" THEN token.twitter ELSE "https://pump.fun",
       marketCap |-> CapOrZero(token),
       deployer |-> deployer,
       holders |-> IF token.usd_market_cap > 0
                     THEN Max(1, token.usd_market_cap \div 100 + draw) ELSE 1,
       createdAt |-> IF token.created_timestamp # 0 THEN token.created_timestamp * 1000
                     ELSE t - index * 60000,
       bondingRate |-> calculateDeployerStats(deployer).bondingRate]

(* part_000:127-150: the log line token.marketCap?.toFixed(0) throws for a *)
(* market cap that is a string.                                            *)
processTokensPumpFun(tokens) ==
  LET rankedTokens == RankTop(tokens, "holders", HOLDERS_TOP_N)
  IN  IF tokens = <<>> THEN Return(<<>>)
      ELSE IF \E i \in 1..Len(rankedTokens) : "str" \in DOMAIN rankedTokens[i].marketCap
        THEN Throw
      ELSE Return(rankedTokens)

(* part_000:67-117: the part of analyzeTokens that its try covers, up to   *)
(* the list it hands to processTokens.                                     *)
PumpFunTokensToProcess(o, t, draws) ==
  LET pumpTokens == fetchRealPumpFunTokens(o).value
      tokens == [i \in 1..Len(pumpTokens) |->
                   NormalizePumpFun(pumpTokens[i], i - 1, t, draws[i])]
      recentTokens == SelectIdx(tokens,
                        [i \in 1..Len(tokens) |-> tokens[i].createdAt > t - 24 * ONE_HOUR], 1)
  IN  IF recentTokens = <<>> THEN Return(tokens) ELSE Return(recentTokens)

(* `return processTokens(...)` hands the promise over without awaiting it, *)
(* so a rejection of processTokens passes the catch of analyzeTokens.      *)
analyzeTokensPumpFun(o, t, draws) ==
  processTokensPumpFun(TryCatch(PumpFunTokensToProcess(o, t, draws), Return(<<>>)).value)

(* The responses of GET, with what the model observes of the request:     *)
(* whether it was answered without a recompute (hit) and whether the       *)
(* pipeline call it awaited rejected.                                      *)
PumpFunResponse(tokens, last, hit, rejected) ==
  [status |-> 200, success |-> TRUE, tokens |-> tokens, lastUpdated |-> last,
   nextUpdate |-> last + CACHE_DURATION,
   message |-> IF tokens = <<>> THEN "No tokens available from PumpFun" ELSE "",
   view |-> "default", hit |-> hit, rejected |-> rejected]

(* The catch of GET, part_000:173-184 *)
PumpFunErrorResponse(rejected) ==
  [status |-> 500, success |-> FALSE, error |-> "Failed to fetch tokens",
   tokens |-> <<>>, view |-> "default", hit |-> FALSE, rejected |-> rejected]

GetStartPumpFun ==
  /\ InFlight < MaxReq
  /\ IF IsStale(clock, lastFetchTime, cachedTokens)
       THEN /\ req' = [req EXCEPT !["default", clock] = @ + 1]
            /\ resp' = NoResp
       ELSE /\ req' = req
            /\ resp' = PumpFunResponse(cachedTokens, lastFetchTime, TRUE, FALSE)
  /\ UNCHANGED <<clock, cachedTokens, lastFetchTime, cachedVolumeTokens,
                 lastVolumeFetchTime, run>>

(* A variant that stamps the slot before it awaits the pipeline *)
ResolvePumpFunStampsFirst(now, o, draws) ==
  /\ req["default", now] > 0
  /\ LET result == analyzeTokensPumpFun(o, clock, draws)
     IN  /\ lastFetchTime' = now
         /\ IF result.threw
              THEN /\ resp' = PumpFunErrorResponse(result.threw)
                   /\ UNCHANGED cachedTokens
              ELSE /\ cachedTokens' = result.value
                   /\ resp' = PumpFunResponse(result.value, now, FALSE, result.threw)
  /\ req' = [req EXCEPT !["default", now] = @ - 1]
  /\ UNCHANGED <<clock, cachedVolumeTokens, lastVolumeFetchTime, run>>

ResolvePumpFun(now, o, draws) ==
  /\ req["default", now] > 0
  /\ LET result == analyzeTokensPumpFun(o, clock, draws)
     IN  IF result.threw
           THEN /\ resp' = PumpFunErrorResponse(result.threw)
                /\ UNCHANGED <<cachedTokens, lastFetchTime>>
           ELSE /\ cachedTokens' = result.value
                /\ lastFetchTime' = now
                /\ resp' = PumpFunResponse(result.value, now, FALSE, result.threw)
  /\ req' = [req EXCEPT !["default", now] = @ - 1]
  /\ UNCHANGED <<clock, cachedVolumeTokens, lastVolumeFetchTime, run>>

NextPumpFun ==
  \/ Tick
  \/ GetStartPumpFun
  \/ \E t \in Times, o \in PumpOutcomes :
       \E draws \in [1..Len(o.tokens) -> HolderDraws] : ResolvePumpFun(t, o, draws)

SpecPumpFun == Init /\ [][NextPumpFun]_vars

(* C14: if the pipeline call GET awaits rejects, the request is answered   *)
(* with HTTP 500 and success = false and the slot's list and fetch time    *)
(* keep the values they had; every other request is answered with HTTP 200 *)
(* and success = true, carrying tokens, lastUpdated and nextUpdate.        *)
C14_RejectionAnswers500AndKeepsSlot ==
  [][resp'.status # 0 =>
       IF resp'.rejected
         THEN /\ resp'.status = 500 /\ resp'.success = FALSE
              /\ UNCHANGED <<cachedTokens, lastFetchTime>>
         ELSE /\ resp'.status = 200 /\ resp'.success = TRUE
              /\ resp'.tokens = cachedTokens'
              /\ resp'.lastUpdated = lastFetchTime'
              /\ resp'.nextUpdate = lastFetchTime' + CACHE_DURATION]_vars

(* C14, witness: a request is answered with HTTP 500 while the slot holds  *)
(* a list whose lifetime has passed, and the slot still holds it.          *)
C14_Witness ==
  /\ resp.status = 500 /\ cachedTokens # <<>>
  /\ clock - lastFetchTime > CACHE_DURATION

(* Requests of the view v that await their upstream call *)
AwaitingUpstream(v) == SumOver(req, {v} \X Times)

(* C15: there is no single-flight guard: a request that arrives while      *)
(* another request's recompute for the same slot still awaits the upstream *)
(* and finds the slot stale or empty starts a recompute of its own, so two *)
(* upstream fetches for one slot are in flight at once.                    *)
C15_NoSingleFlight ==
  [][
       /\ (/\ AwaitingUpstream("default") > 0
           /\ (clock - lastFetchTime > CACHE_DURATION \/ cachedTokens = <<>>)
           /\ \E type \in RequestTypes : GetStartDefault(type))
            => /\ StartsRecompute("default")
               /\ AwaitingUpstream("default")' = AwaitingUpstream("default") + 1
       /\ (/\ AwaitingUpstream("volume") > 0
           /\ (clock - lastVolumeFetchTime > CACHE_DURATION \/ cachedVolumeTokens = <<>>)
           /\ \E type \in RequestTypes : GetStartVolume(type))
            => /\ StartsRecompute("volume")
               /\ AwaitingUpstream("volume")' = AwaitingUpstream("volume") + 1]_vars

(* C15, witness: two recomputes of the default slot in flight, started at  *)
(* different times.                                                        *)
C15_Witness ==
  /\ AwaitingUpstream("default") = 2
  /\ \E t \in Times : req["default", t] = 1 /\ t < clock /\ req["default", clock] = 1

----------------------------------------------------------------------------
(* Further claims about the fetchers, checked under SpecFetch *)

(* The positions in the call log of the calls to an endpoint *)
CallsTo(name) == {k \in 1..Len(run.calls) : run.calls[k].call = name}

----------------------------------------------------------------------------
(* Further claims about the default pipeline, checked under SpecPipeline *)

(* C17: when the fetched list is not empty and none of its records has    *)
(* holders >= 15 and marketCap >= 6000, the default pipeline returns the   *)
(* empty list and the response is HTTP 200, success = true, tokens = []    *)
(* with the message 'No tokens found matching criteria'; no unfiltered     *)
(* record is returned.                                                     *)
C17_NothingQualifiesGivesEmpty ==
  (/\ run.op = "analyze" /\ run.fetched # <<>>
   /\ \A i \in 1..Len(run.fetched) :
        ~(run.fetched[i].holders >= 15 /\ run.fetched[i].marketCap >= 6000))
    => /\ run.ranked = <<>>
       /\ run.response.status = 200 /\ run.response.success = TRUE
       /\ run.response.tokens = <<>>
       /\ run.response.message = "No tokens found matching criteria"

(* C17, witness: a single fetched record, below the holder threshold and   *)
(* with a deployer above the bonding rate threshold, and the empty answer. *)
C17_Witness ==
  /\ run.op = "analyze" /\ Len(run.fetched) = 1
  /\ run.fetched[1].holders < 15 /\ run.fetched[1].marketCap >= 6000
  /\ calculateDeployerStats(run.fetched[1].deployer).bondingRate > 50
  /\ run.response.tokens = <<>>


(* C18: within one output list of the default pipeline the mint values are *)
(* pairwise distinct, also when several pairs of the upstream body lack    *)
(* baseToken.address or are pairs of one base token.                       *)
C18_MintsPairwiseDistinct ==
  run.op = "analyze" =>
    \A i \in 1..Len(run.ranked) : \A j \in 1..Len(run.ranked) :
      i # j => run.ranked[i].mint # run.ranked[j].mint


----------------------------------------------------------------------------
(* The normalizers, each applied to one raw record once and once again,    *)
(* at the same time or later: route.ts:69-81 (default), route.ts:129-146   *)
(* (volume), part_001:190-205 (trending), part_002:579-613 (the DexScreener *)
(* revision of analyzeTokens), part_000:81-106 (PumpFun) and               *)
(* part_001:552-571 (PumpPortal).                                          *)

(* Pairs with and without each of fdv, marketCap and liquidity.usd; all    *)
(* have a pairCreatedAt, as the filters before the normalizers demand,     *)
(* but for the part_002 normalizer, which is given pairs without one too.  *)
CapPairs ==
  {[PairQ EXCEPT !.fdv = f, !.marketCap = m, !.liquidityUsd = l] :
     f \in {0, 9000}, m \in {0, 8000}, l \in {0, 7000}}

UndatedPair == [PairQ EXCEPT !.pairCreatedAt = 0, !.url = ""]

(* Math.random() in hundredths *)
RandomDraws == {0, 50, 99}

(* part_002:579-613 *)
NormalizeDexPair(pair, t) ==
  LET deployer == IF pair.creator = <<>> THEN Unknown ELSE pair.creator
      totalTxns == pair.buys24 + pair.sells24
  IN  [mint |-> IF pair.address = "" THEN "unknown" ELSE pair.address,
       name |-> IF pair.name = "" THEN "Unknown Token" ELSE pair.name,
       symbol |-> IF pair.symbol = "" THEN "UNKNOWN" ELSE pair.symbol,
       uri |-> IF pair.url = "" THEN "https://pump.fun" ELSE pair.url,
       marketCap |-> IF pair.fdv # 0 THEN pair.fdv ELSE pair.liquidityUsd,
       deployer |-> deployer,
       holders |-> Max(1, totalTxns \div 4),
       createdAt |-> IF pair.pairCreatedAt # 0 THEN pair.pairCreatedAt ELSE t,
       bondingRate |-> calculateDeployerStats(deployer).bondingRate]

(* part_001:552-571; random is the value of Math.random() in hundredths,   *)
(* and a usd_market_cap that is a string of digits compares as its number. *)
NormalizePumpPortal(token, t, random) ==
  [mint |-> IF token.mint = "" THEN "unknown" ELSE token.mint,
   name |-> IF token.name = "" THEN "Unknown Token" ELSE token.name,
   symbol |-> IF token.symbol = "" THEN "UNKNOWN" ELSE token.symbol,
   uri |-> IF token.image_uri # "" THEN token.image_uri ELSE token.twitter,
   marketCap |-> CapOrZero(token),
   deployer |-> IF token.creator = <<>> THEN Unknown ELSE token.creator,
   holders |-> IF token.usd_market_cap > 1000
                 THEN (random * 50) \div 100 + 10
                 ELSE (random * 20) \div 100 + 1,
   createdAt |-> IF token.created_timestamp # 0 THEN token.created_timestamp * 1000
                 ELSE t,
   priceUsd |-> 0, volume24h |-> 0, priceChange24h |-> 0]

(* A normalizer has been applied to the record raw (at the position index) *)
(* no more than once: it can be applied to it, again.                      *)
CanNormalize(by, raw, index) ==
  \/ run.op = "none"
  \/ /\ run.op = "normalize" /\ run.by = by /\ run.raw = raw /\ run.index = index
     /\ Len(run.tokens) < 2

Normalized(by, raw, index, token) ==
  /\ run' = [op |-> "normalize", by |-> by, raw |-> raw, index |-> index,
             at |-> (IF run.op = "none" THEN <<>> ELSE run.at) \o <<clock>>,
             tokens |-> (IF run.op = "none" THEN <<>> ELSE run.tokens) \o <<token>>]
  /\ UNCHANGED <<clock, cachedTokens, lastFetchTime, cachedVolumeTokens,
                 lastVolumeFetchTime, req, resp>>

CallNormalizeRecent(pair) ==
  /\ CanNormalize("default", pair, 0)
  /\ Normalized("default", pair, 0, NormalizeRecent(pair))

CallVolumeToken(pair) ==
  /\ CanNormalize("volume", pair, 0)
  /\ Normalized("volume", pair, 0, VolumeToken(pair, 1))

CallTrendingToken(pair) ==
  /\ CanNormalize("trending", pair, 0)
  /\ Normalized("trending", pair, 0, TrendingToken(pair, 1))

CallNormalizeDexPair(pair) ==
  /\ CanNormalize("dexPair", pair, 0)
  /\ Normalized("dexPair", pair, 0, NormalizeDexPair(pair, clock))

CallNormalizePumpFun(token, index, draw) ==
  /\ CanNormalize("pumpFun", token, index)
  /\ Normalized("pumpFun", token, index, NormalizePumpFun(token, index, clock, draw))

CallNormalizePumpPortal(token, random) ==
  /\ CanNormalize("pumpPortal", token, 0)
  /\ Normalized("pumpPortal", token, 0, NormalizePumpPortal(token, clock, random))

NextNormalize ==
  \/ \E pair \in CapPairs : CallNormalizeRecent(pair)
  \/ \E pair \in CapPairs : CallVolumeToken(pair)
  \/ \E pair \in CapPairs : CallTrendingToken(pair)
  \/ \E pair \in CapPairs \cup {UndatedPair} : CallNormalizeDexPair(pair)
  \/ \E token \in {PumpA, PumpB} : \E index \in 0..1 : \E draw \in {0, 19} :
       CallNormalizePumpFun(token, index, draw)
  \/ \E token \in {PumpA, PumpB} : \E random \in RandomDraws :
       CallNormalizePumpPortal(token, random)
  \/ Tick

SpecNormalize == Init /\ [][NextNormalize]_vars

TokenFields ==
  {"mint", "name", "symbol", "uri", "marketCap", "deployer", "holders", "createdAt"}

C20_CapIsFdvElseCapElseLiquidity ==
  (run.op = "normalize" /\ run.by \in {"default", "volume", "trending"}) =>
    \A i \in 1..Len(run.tokens) :
      run.tokens[i].marketCap =
        IF run.raw.fdv # 0 THEN run.raw.fdv
        ELSE IF run.raw.marketCap # 0 THEN run.raw.marketCap
        ELSE run.raw.liquidityUsd


----------------------------------------------------------------------------
(* Further claims about the handler, checked under Spec *)

(* The step ends the recompute of the request of the view that started at  *)
(* the time t, and writes the list and the time into the slot and into the *)
(* response together.                                                      *)
WrittenByRecompute(view, t, list, last) ==
  /\ req'[view, t] = req[view, t] - 1
  /\ last = t
  /\ resp'.status = 200 /\ resp'.view = view /\ ~resp'.hit
  /\ resp'.tokens = list /\ resp'.lastUpdated = t

(* C21: a slot is overwritten wholesale: a step that changes the list or   *)
(* the fetch time of a slot is the end of one recompute, which writes both, *)
(* under every interleaving of requests; and every response carries the    *)
(* list and the fetch time its slot holds after the step.                  *)
C21_SlotWrittenWholesale ==
  [][
       /\ (cachedTokens' # cachedTokens \/ lastFetchTime' # lastFetchTime) =>
            \E t \in Times : WrittenByRecompute("default", t, cachedTokens', lastFetchTime')
       /\ (cachedVolumeTokens' # cachedVolumeTokens
             \/ lastVolumeFetchTime' # lastVolumeFetchTime) =>
            \E t \in Times :
              WrittenByRecompute("volume", t, cachedVolumeTokens', lastVolumeFetchTime')
       /\ (resp'.status = 200 /\ resp'.view = "default") =>
            resp'.tokens = cachedTokens' /\ resp'.lastUpdated = lastFetchTime'
       /\ (resp'.status = 200 /\ resp'.view = "volume") =>
            /\ resp'.tokens = cachedVolumeTokens'
            /\ resp'.lastUpdated = lastVolumeFetchTime']_vars

(* C21, witness: a recompute of the default slot replaces a list stamped   *)
(* earlier with its own list and time while another request of the slot    *)
(* still awaits its upstream call.                                         *)
C21_Witness ==
  /\ resp.status = 200 /\ resp.view = "default" /\ ~resp.hit
  /\ cachedTokens # <<>> /\ lastFetchTime > StartTime
  /\ AwaitingUpstream("default") > 0


----------------------------------------------------------------------------
(* The debug revision of the pipeline, route.ts:310-515: fetchRecentTokens *)
(* 322-396 with a window of 24 hours, analyzeTokens 412-466 with the       *)
(* market cap threshold 1000 and the fallback to the unfiltered list,      *)
(* processTokens 468-515.                                                  *)

DEBUG_RECENT_LIMIT == 100
DEBUG_MIN_MARKET_CAP == 1000
DEBUG_TOP_N == 5

MaxDebugPairs == 6

(* Pairs below and at the threshold, with 15, 20 and 15 holders and the    *)
(* pair addresses 'R', 'Q' and 'P'.                                        *)
DebugPairs ==
  {[PairR EXCEPT !.liquidityUsd = 999],
   [PairQ EXCEPT !.liquidityUsd = 999, !.pairCreatedAt = StartTime],
   [PairR EXCEPT !.liquidityUsd = 1000, !.pairAddress = <<80>>]}

IsRecent24h(p, t) == p.pairCreatedAt # 0 /\ p.pairCreatedAt > t - 24 * ONE_HOUR

fetchRecentTokensDebugBody(o, t) ==
  IF o.kind \in {"reject", "badJson", "nullBody"} THEN Throw
  ELSE IF o.kind = "notOk" THEN Return(<<>>)
  ELSE LET keep == [i \in 1..Len(o.pairs) |-> IsRecent24h(o.pairs[i], t)]
           recentTokens == SliceTo(SelectIdx(o.pairs, keep, 1), DEBUG_RECENT_LIMIT)
       IN  Return([i \in 1..Len(recentTokens) |-> NormalizeRecent(recentTokens[i])])

fetchRecentTokensDebug(o, t) == TryCatch(fetchRecentTokensDebugBody(o, t), Return(<<>>))

(* route.ts:468-515 *)
processTokens(tokens) ==
  LET statsMap == DeployerStatsMap(tokens)
      tokensWithStats == [i \in 1..Len(tokens) |-> WithBondingRate(tokens[i], statsMap)]
  IN  RankTop(tokensWithStats, "holders", HOLDERS_TOP_N)

MeetsDebugCriteria(token) == token.marketCap >= DEBUG_MIN_MARKET_CAP

(* A variant without the fallback to the unfiltered list *)
analyzeTokensDebugNoFallback(o, t) ==
  LET recentTokens == fetchRecentTokensDebug(o, t).value
      filteredTokens ==
        SelectIdx(recentTokens,
          [i \in 1..Len(recentTokens) |-> MeetsDebugCriteria(recentTokens[i])], 1)
  IN  IF recentTokens = <<>> THEN Return(<<>>)
      ELSE IF filteredTokens = <<>> THEN Return(<<>>)
      ELSE Return(processTokens(filteredTokens))

analyzeTokensDebugBody(o, t) ==
  LET recentTokens == fetchRecentTokensDebug(o, t).value
      filteredTokens ==
        SelectIdx(recentTokens,
          [i \in 1..Len(recentTokens) |-> MeetsDebugCriteria(recentTokens[i])], 1)
      allSorted == SliceTo(SortDescBy(recentTokens, "holders"), DEBUG_TOP_N)
  IN  IF recentTokens = <<>> THEN Return(<<>>)
      ELSE IF filteredTokens = <<>> THEN Return(processTokens(allSorted))
      ELSE Return(processTokens(filteredTokens))

analyzeTokensDebug(o, t) == TryCatch(analyzeTokensDebugBody(o, t), Return(<<>>))

RunDebugPipeline(o) ==
  /\ run.op = "none"
  /\ run' = [op |-> "debug", fetched |-> fetchRecentTokensDebug(o, clock).value,
             ranked |-> analyzeTokensDebug(o, clock).value]
  /\ UNCHANGED <<clock, cachedTokens, lastFetchTime, cachedVolumeTokens,
                 lastVolumeFetchTime, req, resp>>

NextDebug ==
  \E o \in Failures \cup Bodies(DebugPairs, MaxDebugPairs) : RunDebugPipeline(o)

SpecDebug == Init /\ [][NextDebug]_vars

(* How often x occurs in the list s *)
Count(s, x) == Cardinality({i \in 1..Len(s) : s[i] = x})

Enriched(token) ==
  [f \in DOMAIN token \cup {"bondingRate"} |->
     IF f = "bondingRate" THEN 50 + (SumCodes(token.deployer) % 40) ELSE token[f]]

(* C22: in the debug pipeline, when the fetched list is not empty and no   *)
(* record has a market cap of 1000 or more, the output is not empty: it    *)
(* has min(5, fetched) records, ranked 1..k, in the order of their holders, *)
(* each a fetched record with its deployer's bonding rate, and no fetched  *)
(* record left out has more holders than the last of the output.           *)
C22_DebugFallsBackToUnfiltered ==
  (/\ run.op = "debug" /\ run.fetched # <<>>
   /\ \A i \in 1..Len(run.fetched) : run.fetched[i].marketCap < 1000)
    => LET k == Len(run.ranked)
           out == [i \in 1..k |-> Without(run.ranked[i], "rank")]
           in == [i \in 1..Len(run.fetched) |-> Enriched(run.fetched[i])]
       IN  /\ k > 0
           /\ k = IF Len(run.fetched) < 5 THEN Len(run.fetched) ELSE 5
           /\ \A i \in 1..k : run.ranked[i].rank = i
           /\ \A i \in 1..k : \A j \in i..k : out[i].holders >= out[j].holders
           /\ \A i \in 1..k : Count(out, out[i]) <= Count(in, out[i])
           /\ \A i \in 1..Len(in) :
                in[i].holders > out[k].holders => Count(out, in[i]) = Count(in, in[i])

(* C22, witness: six fetched records below the threshold, not all with the *)
(* same holders, and the five of the output, among them all those with the *)
(* most holders.                                                           *)
C22_Witness ==
  /\ run.op = "debug" /\ Len(run.fetched) = 6 /\ Len(run.ranked) = 5
  /\ \A i \in 1..6 : run.fetched[i].marketCap < 1000
  /\ run.fetched[1].holders < run.fetched[6].holders
  /\ run.ranked[1].holders > run.ranked[5].holders


----------------------------------------------------------------------------
(* C23: in one run of the default pipeline calculateDeployerStats is       *)
(* called exactly once for each distinct deployer of the records with      *)
(* holders >= 15 and marketCap >= 6000 and for no other; the record of     *)
(* every call is in the stats map the records are joined with; and two     *)
(* records of one deployer have the same bondingRate.                      *)
C23_StatsOncePerDeployer ==
  run.op = "analyze" =>
    LET passed == {i \in 1..Len(run.fetched) :
                     run.fetched[i].holders >= 15 /\ run.fetched[i].marketCap >= 6000}
    IN  /\ \A i \in passed : Count(run.statsCalls, run.fetched[i].deployer) = 1
        /\ \A k \in 1..Len(run.statsCalls) :
             \E i \in passed : run.fetched[i].deployer = run.statsCalls[k]
        /\ \A i \in 1..Len(run.filtered) :
             run.filtered[i].deployer \in DOMAIN DeployerStatsMap(run.filtered)
        /\ \A i \in 1..Len(run.qualified) : \A j \in 1..Len(run.qualified) :
             run.qualified[i].deployer = run.qualified[j].deployer
               => run.qualified[i].bondingRate = run.qualified[j].bondingRate

(* C23, witness: two records of one deployer pass the filters, with one    *)
(* call for the deployer.                                                  *)
C23_Witness ==
  /\ run.op = "analyze" /\ Len(run.qualified) = 2 /\ Len(run.statsCalls) = 1
  /\ run.qualified[1].deployer = run.qualified[2].deployer
  /\ run.qualified[1].mint # run.qualified[2].mint


----------------------------------------------------------------------------
(* C24: when the upstream fetch of a recompute of the default slot fails   *)
(* and the slot holds a non-empty list, the slot is overwritten with the   *)
(* empty list and the time the request started at, and the response is     *)
(* HTTP 200, success = true, with tokens = [].                             *)
C24_FailedFetchEmptiesSlot ==
  [][\A t \in Times :
       (/\ req'["default", t] = req["default", t] - 1
        /\ resp'.upstreamFailed
        /\ cachedTokens # <<>>)
         => /\ cachedTokens' = <<>> /\ lastFetchTime' = t
            /\ resp'.status = 200 /\ resp'.success = TRUE
            /\ resp'.tokens = <<>> /\ resp'.lastUpdated = t]_vars

(* C24, witness: a request awaits its upstream call, started when the slot *)
(* held a non-empty list stamped more than CACHE_DURATION before.          *)
C24_Witness ==
  /\ req["default", clock] > 0
  /\ cachedTokens # <<>> /\ clock - lastFetchTime > CACHE_DURATION


----------------------------------------------------------------------------
(* The handler under the assumption that every upstream call a request     *)
(* issues settles: the step that ends a waiting request is taken at last.  *)
(* The upstream fails in each of its ways or answers with one pair.        *)
LiveOutcomes == Failures \cup {[kind |-> "ok", pairs |-> <<PairR>>]}

NextLive ==
  \/ Tick
  \/ \E type \in RequestTypes : GetStartDefault(type)
  \/ \E type \in RequestTypes : GetStartVolume(type)
  \/ \E t \in Times, o \in LiveOutcomes : ResolveDefault(t, o)
  \/ \E t \in Times, o \in LiveOutcomes : ResolveVolume(t, o)

UpstreamSettles ==
  /\ \A t \in Times : WF_vars(\E o \in LiveOutcomes : ResolveDefault(t, o))
  /\ \A t \in Times : WF_vars(\E o \in LiveOutcomes : ResolveVolume(t, o))

SpecLive == Init /\ [][NextLive]_vars /\ UpstreamSettles

(* A request of the view that started at the time t is answered in this    *)
(* step, with HTTP 200 or HTTP 500.                                        *)
Answered(view, t) ==
  /\ req'[view, t] = req[view, t] - 1
  /\ resp'.status \in {200, 500} /\ resp'.view = view

(* C25: every request receives one response, HTTP 200 or HTTP 500: it is   *)
(* answered in the step it arrives in, or it waits for its upstream call   *)
(* and a step that ends the wait of a request answers it; no request      *)
(* waits for ever, whatever its upstream call comes to: the requests that  *)
(* started at one time are all answered again and again, or answers to     *)
(* them never cease; this holds of the requests that arrive after a       *)
(* failure as of any other.                                                *)
C25_EveryRequestAnswered ==
  /\ [][\A view \in Views : \A t \in Times :
          /\ req'[view, t] < req[view, t] => Answered(view, t)
          /\ req'[view, t] > req[view, t] =>
               req'[view, t] = req[view, t] + 1 /\ resp' = NoResp]_vars
  /\ \A view \in Views : \A t \in Times :
       []<>(req[view, t] = 0) \/ []<><<Answered(view, t)>>_vars

(* C25, witness: a request is answered with HTTP 200 after its upstream    *)
(* call failed, while another request still waits, and the handler accepts *)
(* the next request of either view.                                        *)
C25_Witness ==
  /\ resp.status = 200 /\ ~resp.hit /\ resp.upstreamFailed
  /\ InFlight > 0 /\ InFlight < MaxReq
  /\ ENABLED GetStartDefault("") /\ ENABLED GetStartVolume("volume")


----------------------------------------------------------------------------
(* C26: a request answered from the cache, without a call of the pipeline, *)
(* is answered with a list that is not empty and a lastUpdated that is no  *)
(* more than CACHE_DURATION before the request; and a request that finds   *)
(* the list of its slot empty starts a recompute, however recently the     *)
(* slot was stamped.                                                       *)
C26_HitIsFreshAndNotEmpty ==
  [][
       /\ (resp'.status = 200 /\ resp'.hit) =>
            /\ resp'.fetches = 0 /\ req' = req
            /\ resp'.tokens # <<>>
            /\ clock - resp'.lastUpdated <= CACHE_DURATION
       /\ (cachedTokens = <<>> /\ \E type \in RequestTypes : GetStartDefault(type))
            => StartsRecompute("default")
       /\ (cachedVolumeTokens = <<>> /\ \E type \in RequestTypes : GetStartVolume(type))
            => StartsRecompute("volume")]_vars

(* C26, witness: a volume request is answered from the cache exactly       *)
(* CACHE_DURATION after the slot was stamped, while a default request that *)
(* found its slot empty, and stamped no longer ago, awaits its upstream.   *)
C26_Witness ==
  /\ resp.status = 200 /\ resp.hit /\ clock - resp.lastUpdated = CACHE_DURATION
  /\ req["default", clock] > 0 /\ cachedTokens = <<>>
  /\ lastFetchTime # 0 /\ clock - lastFetchTime <= CACHE_DURATION


----------------------------------------------------------------------------
(* C27: the fetch time stored in a slot never decreases, under any         *)
(* interleaving of overlapping requests.                                   *)
C27_FetchTimeNeverDecreases ==
  [][/\ lastFetchTime' >= lastFetchTime
     /\ lastVolumeFetchTime' >= lastVolumeFetchTime]_vars


----------------------------------------------------------------------------
(* fetchHighVolumeTokens (route.ts:89-165) over bodies with more pairs     *)
(* than it returns and with pairs without volume or without buys.          *)

MaxVolumePairs == 6

(* Pairs with the 24h volumes 500 and 300, a pair with no volume and a     *)
(* pair with no buys.                                                      *)
VolumePairs ==
  {PairR, PairQ, [PairR EXCEPT !.volumeH24 = 0, !.pairAddress = <<83>>],
   [PairQ EXCEPT !.volumeH24 = 400, !.buys24 = 0, !.pairAddress = <<84>>]}

RunVolume(o) ==
  /\ run.op = "none"
  /\ run' = [op |-> "volume", upstream |-> o, result |-> fetchHighVolumeTokens(o)]
  /\ UNCHANGED <<clock, cachedTokens, lastFetchTime, cachedVolumeTokens,
                 lastVolumeFetchTime, req, resp>>

NextVolume == \E o \in Failures \cup Bodies(VolumePairs, MaxVolumePairs) : RunVolume(o)

SpecVolume == Init /\ [][NextVolume]_vars

(* The pairs of the upstream body with a 24h volume and 24h buys *)
QualifyingPairs(o) ==
  {j \in 1..Len(o.pairs) : o.pairs[j].volumeH24 > 0 /\ o.pairs[j].buys24 > 0}

(* C28: the volume view returns, without throwing, at most 5 tokens,       *)
(* ranked from 1, each built from a pair of the upstream body with 24h     *)
(* volume > 0 and 24h buys > 0, in the order of non-increasing volume24h;  *)
(* it returns the empty list when no pair qualifies or the upstream fails. *)
C28_VolumeViewTopFive ==
  run.op = "volume" =>
    LET tokens == run.result.value
        o == run.upstream
    IN  /\ ~run.result.threw
        /\ Len(tokens) <= 5
        /\ \A i \in 1..Len(tokens) :
             /\ tokens[i].rank = i
             /\ \E j \in QualifyingPairs(o) :
                  /\ tokens[i].volume24h = o.pairs[j].volumeH24
                  /\ tokens[i].pairAddress = o.pairs[j].pairAddress
                  /\ tokens[i].symbol = o.pairs[j].symbol
        /\ \A i \in 1..Len(tokens) : \A j \in i..Len(tokens) :
             tokens[i].volume24h >= tokens[j].volume24h
        /\ (o.kind # "ok" \/ QualifyingPairs(o) = {}) => tokens = <<>>
        /\ (o.kind = "ok" /\ QualifyingPairs(o) # {}) => tokens # <<>>

(* C28, witness: a body of six pairs, one of them without buys, and the    *)
(* five tokens of the others, not all of one volume.                       *)
C28_Witness ==
  /\ run.op = "volume" /\ Len(run.upstream.pairs) = 6
  /\ Cardinality(QualifyingPairs(run.upstream)) = 5
  /\ \E j \in 1..6 : run.upstream.pairs[j].volumeH24 > 0 /\ run.upstream.pairs[j].buys24 = 0
  /\ Len(run.result.value) = 5
  /\ run.result.value[1].volume24h > run.result.value[5].volume24h


----------------------------------------------------------------------------
(* The dashboard, page.tsx: the state of Home (24-30), fetchTokens (32-48), *)
(* the polls of the effect (66-77) and the view of the token list          *)
(* (163-181).  The state of the component is the record run.               *)

MaxPolls == 2

(* The lists the default pipeline answers with *)
PageLists == {analyzeTokens(o, StartTime).value : o \in HandlerOutcomes}

(* What a poll comes to: fetch() rejects, response.json() rejects, the     *)
(* body is the JSON value null, or the body is a response of GET: the      *)
(* error response or a response with a list.                               *)
PollOutcomes ==
  {[kind |-> k, body |-> NoResp] : k \in {"reject", "badJson", "nullBody"}}
    \cup {[kind |-> "json", body |-> ErrorResponse("default", TRUE)]}
    \cup {[kind |-> "json", body |-> DefaultResponse(ts, t, FALSE, 1, FALSE)] :
            ts \in PageLists, t \in Times}

(* useState: page.tsx:24-30, and the first fetchTokens of the effect,      *)
(* page.tsx:66-68, up to its await.                                        *)
Mount ==
  /\ run.op = "none"
  /\ run' = [op |-> "page", tokens |-> <<>>, lastUpdated |-> 0, nextUpdate |-> 0,
             loading |-> TRUE, polls |-> 1, settled |-> [kind |-> "none", body |-> NoResp]]
  /\ UNCHANGED <<clock, cachedTokens, lastFetchTime, cachedVolumeTokens,
                 lastVolumeFetchTime, req, resp>>

(* The interval fires: fetchTokens up to its await, page.tsx:33-35 *)
PollStart ==
  /\ run.op = "page" /\ run.polls < MaxPolls
  /\ run' = [run EXCEPT !.loading = TRUE, !.polls = @ + 1]
  /\ UNCHANGED <<clock, cachedTokens, lastFetchTime, cachedVolumeTokens,
                 lastVolumeFetchTime, req, resp>>

(* A variant that clears the list when a poll fails *)
PollSettleClears(o) ==
  /\ run.op = "page" /\ run.polls > 0
  /\ run' = IF o.kind = "json" /\ o.body.success
              THEN [run EXCEPT !.tokens = o.body.tokens,
                               !.lastUpdated = o.body.lastUpdated,
                               !.nextUpdate = o.body.nextUpdate,
                               !.loading = FALSE, !.polls = @ - 1, !.settled = o]
              ELSE [run EXCEPT !.tokens = <<>>,
                               !.loading = FALSE, !.polls = @ - 1, !.settled = o]
  /\ UNCHANGED <<clock, cachedTokens, lastFetchTime, cachedVolumeTokens,
                 lastVolumeFetchTime, req, resp>>

(* The fetch of a poll settles: fetchTokens from its await to its end,     *)
(* page.tsx:35-47.  A rejection and a body without success leave the       *)
(* state to the finally clause.                                            *)
PollSettle(o) ==
  /\ run.op = "page" /\ run.polls > 0
  /\ run' = IF o.kind = "json" /\ o.body.success
              THEN [run EXCEPT !.tokens = o.body.tokens,
                               !.lastUpdated = o.body.lastUpdated,
                               !.nextUpdate = o.body.nextUpdate,
                               !.loading = FALSE, !.polls = @ - 1, !.settled = o]
              ELSE [run EXCEPT !.loading = FALSE, !.polls = @ - 1, !.settled = o]
  /\ UNCHANGED <<clock, cachedTokens, lastFetchTime, cachedVolumeTokens,
                 lastVolumeFetchTime, req, resp>>

(* page.tsx:163-181: the spinner, the empty state or the list *)
View(page) ==
  IF page.loading /\ page.tokens = <<>> THEN "scanning"
  ELSE IF page.tokens = <<>> THEN "empty"
  ELSE "list"

NextPage ==
  \/ Mount
  \/ PollStart
  \/ \E o \in PollOutcomes : PollSettle(o)

SpecPage == Init /\ [][NextPage]_vars

(* A poll settles in this step *)
PollEnds == run.op = "page" /\ run'.op = "page" /\ run'.polls = run.polls - 1

(* C29: the dashboard's token list, lastUpdated and nextUpdate change only *)
(* when a poll returns success = true, and then to the values of the       *)
(* response; when a poll returns success = false or its fetch throws, the  *)
(* three keep their values, loading is reset to false, and the view is the *)
(* list it had or, without one, the empty state.                           *)
C29_PageKeepsStateOnFailure ==
  [][run.op = "page" =>
       /\ (\/ run'.tokens # run.tokens \/ run'.lastUpdated # run.lastUpdated
           \/ run'.nextUpdate # run.nextUpdate) =>
            /\ PollEnds /\ run'.settled.kind = "json" /\ run'.settled.body.status = 200
            /\ run'.settled.body.success = TRUE
            /\ run'.tokens = run'.settled.body.tokens
            /\ run'.lastUpdated = run'.settled.body.lastUpdated
            /\ run'.nextUpdate = run'.settled.body.nextUpdate
       /\ (PollEnds /\ (run'.settled.kind # "json" \/ run'.settled.body.status = 500)) =>
            /\ run'.tokens = run.tokens /\ run'.lastUpdated = run.lastUpdated
            /\ run'.nextUpdate = run.nextUpdate
            /\ run'.loading = FALSE
            /\ View(run') = IF run.tokens = <<>> THEN "empty" ELSE "list"]_vars

(* C29, witness: a poll has failed with HTTP 500 and the dashboard shows   *)
(* the list of an earlier poll, with its lastUpdated.                      *)
C29_Witness ==
  /\ run.op = "page" /\ run.settled.kind = "json" /\ run.settled.body.status = 500
  /\ run.tokens # <<>> /\ run.lastUpdated # 0 /\ ~run.loading
  /\ View(run) = "list"

====
